---- MODULE Spec2Model ----
(***************************************************************************)
(* A model of the fastalloc object pool: the three slot trackers           *)
(* (StackAllocator, FreeListAllocator, BitmapAllocator), FixedPool,        *)
(* GrowingPool and the owned handle.                                       *)
(*                                                                         *)
(* Rust indices are 0-based; a Vec is a TLA+ sequence whose element k      *)
(* (0-based) sits at position k + 1.  A u64 word of a bitmap is the set of *)
(* its set bit positions, a subset of 0..63.                               *)
(***************************************************************************)
EXTENDS Integers, Sequences, FiniteSets, Bags, TLC

VARIABLES
    debug_assertions,  \* cfg(debug_assertions): the build mode
    tracker,           \* a slot tracker exercised on its own
    claimed,           \* indices claimed on tracker and not yet released
    pinned,            \* claimed indices the client keeps for good
    toPin,             \* number of claims the client makes first, and pins
    trackerOp,         \* the last tracker operation and its result; for
                       \* find_free_slots ret is the length of the vector
                       \* returned, or None, and indices is the vector
    released,          \* indices released since the last extend and not
                       \* claimed since, oldest first
    misuses,           \* number of releases of an index that was not live
    pool,              \* a FixedPool or a GrowingPool
    handles,           \* bag of the live OwnedHandles of pool
    lastOp,            \* the last pool operation, its result and its steps
    before,            \* the pool and its handles as they were before the
                       \* last allocate, while that allocate or the drop of
                       \* its handle is the last operation
    round,             \* where a client that works in rounds stands: the
                       \* phase, the indices of the first allocations and
                       \* those of the allocations after the drops
    rcs,               \* the Rc allocations behind the shared handles, in
                       \* the order of their creation
    sharedHandles,     \* bag of the live SharedHandles, each the position
                       \* of its Rc allocation in rcs
    weakHandles,       \* bag of the live WeakHandles, likewise
    mutex,             \* the thread that holds the Mutex of a
                       \* ThreadSafePool, or None
    threads,           \* the threads that share a ThreadSafePool or a
                       \* LockFreePool: where each stands and what it holds
    lastRelease,       \* the thread that last gave an index back to the
                       \* pool the threads share, and that index
    queue,             \* the SegQueue of a LockFreePool
    builder,           \* a PoolConfigBuilder
    stats,             \* the StatisticsCollector of pool, in a build with
                       \* the feature "stats"
    calls              \* the allocate calls on pool since its creation or
                       \* the last reset_statistics: how many succeeded and
                       \* how many returned an error

trackerVars == <<tracker, claimed, pinned, toPin, trackerOp, released, misuses>>
poolVars == <<pool, handles, lastOp, before, round>>
sharedVars == <<rcs, sharedHandles, weakHandles>>
threadVars == <<mutex, threads, lastRelease, queue>>
statVars == <<stats, calls>>
extVars == <<sharedVars, threadVars, builder, statVars>>
vars == <<debug_assertions, trackerVars, poolVars, extVars>>

---------------------------------------------------------------------------
(* Bounds of the model *)

\* largest initial capacity of a pool
MaxInitCap == 2
\* pools are not grown beyond this capacity
CapBound == 4
\* element values are 1..MaxVal
MaxVal == 2
\* largest Linear { amount }
MaxAmount == 2
\* largest capacity of a tracker built empty
TrackerInitCap == 2
\* largest number of slots a tracker is extended by in one call
MaxExtend == 2
\* number of slots left free in a tracker filled up to a word boundary
BoundarySlack == 2
\* a tracker is not extended beyond this many slots that are not pinned
MaxActive == 4
\* largest number of releases of an index that is not live
MaxMisuse == 1
\* largest number of values in a batch
MaxBatch == 2

---------------------------------------------------------------------------
(* Values *)

\* Option::None of an Option<usize>
None == -1
\* MaybeUninit::uninit(), and a slot whose element was dropped in place
Uninit == 0
Val == 1..MaxVal
NoPanic == ""

Last(s) == s[Len(s)]
Front(s) == SubSeq(s, 1, Len(s) - 1)
SeqToSet(s) == {s[k] : k \in 1..Len(s)}
Min(S) == CHOOSE x \in S : \A y \in S : x <= y

\* usize arithmetic wraps in a build without overflow checks; the model
\* keeps the wrap-around with a modulus small enough to compute with
UsizeModulus == 2^30
WrappingSub(a, b) == (a - b) % UsizeModulus

---------------------------------------------------------------------------
(* Words of the bitmaps *)

BITS_PER_WORD == 64
AllBits == 0..(BITS_PER_WORD - 1)
\* (capacity + 63) / 64
NumWords(capacity) == (capacity + BITS_PER_WORD - 1) \div BITS_PER_WORD
\* vec![0u64; n]
ZeroWords(n) == [w \in 1..n |-> {}]
\* Vec::resize(n, 0): truncates or pads with zero words
ResizeWords(words, n) ==
    [w \in 1..n |-> IF w <= Len(words) THEN words[w] ELSE {}]
\* (!word).trailing_zeros() of a word that is not u64::MAX
TrailingZerosOfNot(word) == Min(AllBits \ word)

---------------------------------------------------------------------------
(* StackAllocator *)

StackAllocator_new(capacity) ==
    [kind |-> "Stack",
     free_stack |-> [k \in 1..capacity |-> capacity - k],
     capacity |-> capacity,
     allocated_bitmap |->
        IF debug_assertions THEN ZeroWords(NumWords(capacity)) ELSE <<>>]

\* StackAllocator_with_additional_capacity pushing old_capacity - 1 too
StackAllocator_with_additional_capacity_inclusive(a, additional) ==
    LET old_capacity == a.capacity
        new_capacity == a.capacity + additional
    IN [a EXCEPT
          !.capacity = new_capacity,
          !.allocated_bitmap =
              IF debug_assertions
              THEN ResizeWords(@, NumWords(new_capacity))
              ELSE @,
          !.free_stack =
              @ \o [k \in 1..(additional + 1) |-> new_capacity - k]]

StackAllocator_with_additional_capacity(a, additional) ==
    LET old_capacity == a.capacity
        new_capacity == a.capacity + additional
    IN [a EXCEPT
          !.capacity = new_capacity,
          !.allocated_bitmap =
              IF debug_assertions
              THEN ResizeWords(@, NumWords(new_capacity))
              ELSE @,
          !.free_stack =
              @ \o [k \in 1..additional |-> new_capacity - k]]

StackAllocator_allocate(a) ==
    IF a.free_stack = <<>>
    THEN [a |-> a, ret |-> None, panic |-> NoPanic]
    ELSE LET index == Last(a.free_stack)
             popped == [a EXCEPT !.free_stack = Front(@)]
             word_idx == index \div BITS_PER_WORD
             bit_pos == index % BITS_PER_WORD
         IN IF ~debug_assertions
            THEN [a |-> popped, ret |-> index, panic |-> NoPanic]
            ELSE IF word_idx >= Len(a.allocated_bitmap)
            THEN [a |-> popped, ret |-> None,
                  panic |-> "index out of bounds"]
            ELSE IF bit_pos \in a.allocated_bitmap[word_idx + 1]
            THEN [a |-> popped, ret |-> None,
                  panic |-> "allocating already allocated index"]
            ELSE [a |-> [popped EXCEPT
                           !.allocated_bitmap[word_idx + 1] =
                               @ \cup {bit_pos}],
                  ret |-> index, panic |-> NoPanic]

\* StackAllocator_free putting the index at the bottom of the stack
StackAllocator_free_fifo(a, index) ==
    LET word_idx == index \div BITS_PER_WORD
        bit_pos == index % BITS_PER_WORD
    IN IF ~debug_assertions
       THEN [a |-> [a EXCEPT !.free_stack = <<index>> \o @],
             panic |-> NoPanic]
       ELSE IF ~(index < a.capacity)
       THEN [a |-> a, panic |-> "index out of bounds"]
       ELSE IF bit_pos \notin a.allocated_bitmap[word_idx + 1]
       THEN [a |-> a, panic |-> "double free detected"]
       ELSE [a |-> [a EXCEPT
                      !.allocated_bitmap[word_idx + 1] = @ \ {bit_pos},
                      !.free_stack = <<index>> \o @],
             panic |-> NoPanic]

\* StackAllocator_free without the test of the shadow bitmap
StackAllocator_free_no_double_free_check(a, index) ==
    LET word_idx == index \div BITS_PER_WORD
        bit_pos == index % BITS_PER_WORD
    IN IF ~debug_assertions
       THEN [a |-> [a EXCEPT !.free_stack = Append(@, index)],
             panic |-> NoPanic]
       ELSE IF ~(index < a.capacity)
       THEN [a |-> a, panic |-> "index out of bounds"]
       ELSE [a |-> [a EXCEPT
                      !.allocated_bitmap[word_idx + 1] = @ \ {bit_pos},
                      !.free_stack = Append(@, index)],
             panic |-> NoPanic]

StackAllocator_free(a, index) ==
    LET word_idx == index \div BITS_PER_WORD
        bit_pos == index % BITS_PER_WORD
    IN IF ~debug_assertions
       THEN [a |-> [a EXCEPT !.free_stack = Append(@, index)],
             panic |-> NoPanic]
       ELSE IF ~(index < a.capacity)
       THEN [a |-> a, panic |-> "index out of bounds"]
       ELSE IF bit_pos \notin a.allocated_bitmap[word_idx + 1]
       THEN [a |-> a, panic |-> "double free detected"]
       ELSE [a |-> [a EXCEPT
                      !.allocated_bitmap[word_idx + 1] = @ \ {bit_pos},
                      !.free_stack = Append(@, index)],
             panic |-> NoPanic]

StackAllocator_available(a) == Len(a.free_stack)

---------------------------------------------------------------------------
(* FreeListAllocator *)

FreeListAllocator_new(capacity) ==
    [kind |-> "FreeList",
     free_list |-> [k \in 1..capacity |-> k - 1],
     capacity |-> capacity,
     allocated_bitmap |->
        IF debug_assertions THEN ZeroWords(NumWords(capacity)) ELSE <<>>]

\* FreeListAllocator_extend adding the new indices from old_capacity + 1
FreeListAllocator_extend_skips_first(a, additional) ==
    LET old_capacity == a.capacity
        new_capacity == a.capacity + additional
    IN [a EXCEPT
          !.capacity = new_capacity,
          !.allocated_bitmap =
              IF debug_assertions
              THEN ResizeWords(@, NumWords(new_capacity))
              ELSE @,
          !.free_list =
              @ \o [k \in 1..(additional - 1) |-> old_capacity + k]]

FreeListAllocator_extend(a, additional) ==
    LET old_capacity == a.capacity
        new_capacity == a.capacity + additional
    IN [a EXCEPT
          !.capacity = new_capacity,
          !.allocated_bitmap =
              IF debug_assertions
              THEN ResizeWords(@, NumWords(new_capacity))
              ELSE @,
          !.free_list =
              @ \o [k \in 1..additional |-> old_capacity + k - 1]]

\* FreeListAllocator_allocate reading the last index without popping it
FreeListAllocator_allocate_no_pop(a) ==
    IF a.free_list = <<>>
    THEN [a |-> a, ret |-> None, panic |-> NoPanic]
    ELSE LET index == Last(a.free_list)
             word_idx == index \div BITS_PER_WORD
             bit_pos == index % BITS_PER_WORD
         IN IF ~debug_assertions
            THEN [a |-> a, ret |-> index, panic |-> NoPanic]
            ELSE IF word_idx >= Len(a.allocated_bitmap)
            THEN [a |-> a, ret |-> None, panic |-> "index out of bounds"]
            ELSE IF bit_pos \in a.allocated_bitmap[word_idx + 1]
            THEN [a |-> a, ret |-> None,
                  panic |-> "allocating already allocated index"]
            ELSE [a |-> [a EXCEPT
                           !.allocated_bitmap[word_idx + 1] =
                               @ \cup {bit_pos}],
                  ret |-> index, panic |-> NoPanic]

\* FreeListAllocator_allocate taking the first index of the list
FreeListAllocator_allocate_from_front(a) ==
    IF a.free_list = <<>>
    THEN [a |-> a, ret |-> None, panic |-> NoPanic]
    ELSE LET index == Head(a.free_list)
             popped == [a EXCEPT !.free_list = Tail(@)]
             word_idx == index \div BITS_PER_WORD
             bit_pos == index % BITS_PER_WORD
         IN IF ~debug_assertions
            THEN [a |-> popped, ret |-> index, panic |-> NoPanic]
            ELSE IF word_idx >= Len(a.allocated_bitmap)
            THEN [a |-> popped, ret |-> None,
                  panic |-> "index out of bounds"]
            ELSE IF bit_pos \in a.allocated_bitmap[word_idx + 1]
            THEN [a |-> popped, ret |-> None,
                  panic |-> "allocating already allocated index"]
            ELSE [a |-> [popped EXCEPT
                           !.allocated_bitmap[word_idx + 1] =
                               @ \cup {bit_pos}],
                  ret |-> index, panic |-> NoPanic]

FreeListAllocator_allocate(a) ==
    IF a.free_list = <<>>
    THEN [a |-> a, ret |-> None, panic |-> NoPanic]
    ELSE LET index == Last(a.free_list)
             popped == [a EXCEPT !.free_list = Front(@)]
             word_idx == index \div BITS_PER_WORD
             bit_pos == index % BITS_PER_WORD
         IN IF ~debug_assertions
            THEN [a |-> popped, ret |-> index, panic |-> NoPanic]
            ELSE IF word_idx >= Len(a.allocated_bitmap)
            THEN [a |-> popped, ret |-> None,
                  panic |-> "index out of bounds"]
            ELSE IF bit_pos \in a.allocated_bitmap[word_idx + 1]
            THEN [a |-> popped, ret |-> None,
                  panic |-> "allocating already allocated index"]
            ELSE [a |-> [popped EXCEPT
                           !.allocated_bitmap[word_idx + 1] =
                               @ \cup {bit_pos}],
                  ret |-> index, panic |-> NoPanic]

\* FreeListAllocator_free putting the index at the front of the list
FreeListAllocator_free_front(a, index) ==
    LET word_idx == index \div BITS_PER_WORD
        bit_pos == index % BITS_PER_WORD
    IN IF ~debug_assertions
       THEN [a |-> [a EXCEPT !.free_list = <<index>> \o @],
             panic |-> NoPanic]
       ELSE IF ~(index < a.capacity)
       THEN [a |-> a, panic |-> "index out of bounds"]
       ELSE IF bit_pos \notin a.allocated_bitmap[word_idx + 1]
       THEN [a |-> a, panic |-> "double free detected"]
       ELSE [a |-> [a EXCEPT
                      !.allocated_bitmap[word_idx + 1] = @ \ {bit_pos},
                      !.free_list = <<index>> \o @],
             panic |-> NoPanic]

FreeListAllocator_free(a, index) ==
    LET word_idx == index \div BITS_PER_WORD
        bit_pos == index % BITS_PER_WORD
    IN IF ~debug_assertions
       THEN [a |-> [a EXCEPT !.free_list = Append(@, index)],
             panic |-> NoPanic]
       ELSE IF ~(index < a.capacity)
       THEN [a |-> a, panic |-> "index out of bounds"]
       ELSE IF bit_pos \notin a.allocated_bitmap[word_idx + 1]
       THEN [a |-> a, panic |-> "double free detected"]
       ELSE [a |-> [a EXCEPT
                      !.allocated_bitmap[word_idx + 1] = @ \ {bit_pos},
                      !.free_list = Append(@, index)],
             panic |-> NoPanic]

FreeListAllocator_available(a) == Len(a.free_list)

---------------------------------------------------------------------------
(* BitmapAllocator *)

BitmapAllocator_new(capacity) ==
    [kind |-> "Bitmap",
     bitmap |-> ZeroWords(NumWords(capacity)),
     capacity |-> capacity,
     allocated |-> 0,
     next_free_hint |-> 0]

BitmapAllocator_word_and_bit(index) ==
    [word_idx |-> index \div BITS_PER_WORD, bit_pos |-> index % BITS_PER_WORD]

BitmapAllocator_is_allocated(a, index) ==
    LET wb == BitmapAllocator_word_and_bit(index)
    IN wb.bit_pos \in a.bitmap[wb.word_idx + 1]

BitmapAllocator_mark_allocated(a, index) ==
    LET wb == BitmapAllocator_word_and_bit(index)
    IN [a EXCEPT !.bitmap[wb.word_idx + 1] = @ \cup {wb.bit_pos}]

BitmapAllocator_mark_free(a, index) ==
    LET wb == BitmapAllocator_word_and_bit(index)
    IN [a EXCEPT !.bitmap[wb.word_idx + 1] = @ \ {wb.bit_pos}]

\* the loop "for offset in 0..num_words" of find_free_slot, from offset on
RECURSIVE FindFreeSlotFrom(_, _)
FindFreeSlotFrom(a, offset) ==
    LET num_words == Len(a.bitmap)
    IN IF offset >= num_words
       THEN [a |-> a, ret |-> None]
       ELSE LET word_idx == (a.next_free_hint + offset) % num_words
                word == a.bitmap[word_idx + 1]
            IN IF word # AllBits
                  /\ word_idx * BITS_PER_WORD + TrailingZerosOfNot(word)
                       < a.capacity
               THEN [a |-> [a EXCEPT !.next_free_hint = word_idx],
                     ret |-> word_idx * BITS_PER_WORD
                               + TrailingZerosOfNot(word)]
               ELSE FindFreeSlotFrom(a, offset + 1)

\* BitmapAllocator_find_free_slot starting at the word after the hinted one
BitmapAllocator_find_free_slot_skips_hinted_word(a) == FindFreeSlotFrom(a, 1)

BitmapAllocator_find_free_slot(a) == FindFreeSlotFrom(a, 0)

BitmapAllocator_extend(a, additional) ==
    LET new_capacity == a.capacity + additional
        new_num_words == NumWords(new_capacity)
        old_num_words == Len(a.bitmap)
    IN [a EXCEPT
          !.capacity = new_capacity,
          !.bitmap = IF new_num_words > old_num_words
                     THEN ResizeWords(@, new_num_words)
                     ELSE @]

\* BitmapAllocator_allocate without mark_allocated
BitmapAllocator_allocate_unmarked(a) ==
    IF a.allocated >= a.capacity
    THEN [a |-> a, ret |-> None, panic |-> NoPanic]
    ELSE LET found == BitmapAllocator_find_free_slot(a)
         IN IF found.ret = None
            THEN [a |-> found.a, ret |-> None, panic |-> NoPanic]
            ELSE [a |-> [found.a EXCEPT !.allocated = @ + 1],
                  ret |-> found.ret, panic |-> NoPanic]

BitmapAllocator_allocate(a) ==
    IF a.allocated >= a.capacity
    THEN [a |-> a, ret |-> None, panic |-> NoPanic]
    ELSE LET found == BitmapAllocator_find_free_slot(a)
         IN IF found.ret = None
            THEN [a |-> found.a, ret |-> None, panic |-> NoPanic]
            ELSE [a |-> [BitmapAllocator_mark_allocated(found.a, found.ret)
                           EXCEPT !.allocated = @ + 1],
                  ret |-> found.ret, panic |-> NoPanic]

BitmapAllocator_free(a, index) ==
    LET wb == BitmapAllocator_word_and_bit(index)
    IN IF debug_assertions /\ ~(index < a.capacity)
       THEN [a |-> a, panic |-> "index out of bounds"]
       ELSE IF wb.word_idx >= Len(a.bitmap)
       THEN [a |-> a, panic |-> "index out of bounds"]
       ELSE IF debug_assertions /\ ~BitmapAllocator_is_allocated(a, index)
       THEN [a |-> a, panic |-> "double free detected"]
       ELSE IF debug_assertions /\ a.allocated = 0
       THEN [a |-> BitmapAllocator_mark_free(a, index),
             panic |-> "attempt to subtract with overflow"]
       ELSE [a |-> [BitmapAllocator_mark_free(a, index) EXCEPT
                      !.allocated = WrappingSub(@, 1),
                      !.next_free_hint = wb.word_idx],
             panic |-> NoPanic]

BitmapAllocator_available(a) == WrappingSub(a.capacity, a.allocated)

\* the loop "for _ in 0..count" of find_free_slots, with k rounds to go
RECURSIVE FindFreeSlotsLoop(_, _, _)
FindFreeSlotsLoop(a, k, indices) ==
    IF k = 0
    THEN [a |-> a, ret |-> [kind |-> "Some", indices |-> indices]]
    ELSE LET found == BitmapAllocator_find_free_slot(a)
         IN IF found.ret = None
            THEN [a |-> found.a, ret |-> [kind |-> "None", indices |-> <<>>]]
            ELSE FindFreeSlotsLoop(found.a, k - 1,
                                   Append(indices, found.ret))

BitmapAllocator_find_free_slots(a, count) ==
    IF count > BitmapAllocator_available(a)
    THEN [a |-> a, ret |-> [kind |-> "None", indices |-> <<>>]]
    ELSE FindFreeSlotsLoop(a, count, <<>>)

---------------------------------------------------------------------------
(* The Allocator trait, dispatched on the tracker's kind *)

Allocator_allocate(a) ==
    CASE a.kind = "Stack" -> StackAllocator_allocate(a)
      [] a.kind = "FreeList" -> FreeListAllocator_allocate(a)
      [] a.kind = "Bitmap" -> BitmapAllocator_allocate(a)

Allocator_free(a, index) ==
    CASE a.kind = "Stack" -> StackAllocator_free(a, index)
      [] a.kind = "FreeList" -> FreeListAllocator_free(a, index)
      [] a.kind = "Bitmap" -> BitmapAllocator_free(a, index)

Allocator_available(a) ==
    CASE a.kind = "Stack" -> StackAllocator_available(a)
      [] a.kind = "FreeList" -> FreeListAllocator_available(a)
      [] a.kind = "Bitmap" -> BitmapAllocator_available(a)

Allocator_capacity(a) == a.capacity

Allocator_is_full(a) == Allocator_available(a) = 0

Allocator_is_empty(a) == Allocator_available(a) = Allocator_capacity(a)

Allocator_extend(a, additional) ==
    CASE a.kind = "Stack" -> StackAllocator_with_additional_capacity(a, additional)
      [] a.kind = "FreeList" -> FreeListAllocator_extend(a, additional)
      [] a.kind = "Bitmap" -> BitmapAllocator_extend(a, additional)

Allocator_new(kind, capacity) ==
    CASE kind = "Stack" -> StackAllocator_new(capacity)
      [] kind = "FreeList" -> FreeListAllocator_new(capacity)
      [] kind = "Bitmap" -> BitmapAllocator_new(capacity)

---------------------------------------------------------------------------
(* Poolable, GrowthStrategy and the errors *)

\* the element type keeps the default hooks of Poolable, which leave the
\* element as it is
Poolable_on_acquire(value) == value
Poolable_on_release(value) == value

\* the closures a GrowthStrategy::Custom carries in this model
CustomCompute(name, current) ==
    CASE name = "half" -> current \div 2
      [] name = "zero" -> 0

\* GrowthStrategy_compute_growth without the max(1) of Exponential
GrowthStrategy_compute_growth_no_minimum(strategy, current_capacity) ==
    CASE strategy.kind = "None" -> 0
      [] strategy.kind = "Linear" -> strategy.amount
      [] strategy.kind = "Exponential" ->
            LET growth == (current_capacity * strategy.num) \div strategy.den
            IN IF growth > current_capacity
               THEN growth - current_capacity ELSE 0
      [] strategy.kind = "Custom" ->
            CustomCompute(strategy.compute, current_capacity)

\* factor is the f64 num / den; "as usize" truncates a non-negative product
GrowthStrategy_compute_growth(strategy, current_capacity) ==
    CASE strategy.kind = "None" -> 0
      [] strategy.kind = "Linear" -> strategy.amount
      [] strategy.kind = "Exponential" ->
            LET growth == (current_capacity * strategy.num) \div strategy.den
                saturating_sub == IF growth > current_capacity
                                  THEN growth - current_capacity ELSE 0
            IN IF saturating_sub > 1 THEN saturating_sub ELSE 1
      [] strategy.kind = "Custom" ->
            CustomCompute(strategy.compute, current_capacity)

GrowthStrategy_allows_growth(strategy) == strategy.kind # "None"

PoolExhausted(capacity, allocated) ==
    [kind |-> "PoolExhausted", capacity |-> capacity, allocated |-> allocated]

MaxCapacityExceeded(current, requested, max) ==
    [kind |-> "MaxCapacityExceeded", current |-> current,
     requested |-> requested, max |-> max]

Ok(index) == [kind |-> "Ok", index |-> index]
Panic(msg) == [kind |-> "Panic", msg |-> msg]

---------------------------------------------------------------------------
(* FixedPool *)

FixedPool_with_config(config) ==
    [kind |-> "FixedPool",
     storage |-> [k \in 1..config.capacity |-> Uninit],
     allocator |-> StackAllocator_new(config.capacity),
     capacity |-> config.capacity,
     config |-> config]

FixedPool_capacity(p) == p.capacity
FixedPool_available(p) == StackAllocator_available(p.allocator)
FixedPool_allocated(p) == WrappingSub(p.capacity, FixedPool_available(p))
FixedPool_is_full(p) == Allocator_is_full(p.allocator)
FixedPool_is_empty(p) == Allocator_is_empty(p.allocator)

\* FixedPool_allocate reporting available() as the allocated count
FixedPool_allocate_reports_available(p, value) ==
    LET r == StackAllocator_allocate(p.allocator)
        index == r.ret
        acquired == Poolable_on_acquire(value)
    IN IF r.panic # NoPanic
       THEN [pool |-> [p EXCEPT !.allocator = r.a],
             result |-> Panic(r.panic), events |-> <<>>]
       ELSE IF index = None
       THEN [pool |-> [p EXCEPT !.allocator = r.a],
             result |-> PoolExhausted(p.capacity,
                                      StackAllocator_available(p.allocator)),
             events |-> <<>>]
       ELSE [pool |-> [p EXCEPT !.allocator = r.a,
                                !.storage[index + 1] = acquired],
             result |-> Ok(index),
             events |->
                LET init == p.storage[index + 1] # Uninit
                IN <<[ev |-> "claim", index |-> index, init |-> init],
                     [ev |-> "on_acquire", index |-> index, init |-> init],
                     [ev |-> "write", index |-> index, init |-> init]>>]

\* FixedPool_allocate calling on_acquire on the element in its slot, after
\* the write
FixedPool_allocate_acquires_in_slot(p, value) ==
    LET r == StackAllocator_allocate(p.allocator)
        index == r.ret
    IN IF r.panic # NoPanic
       THEN [pool |-> [p EXCEPT !.allocator = r.a],
             result |-> Panic(r.panic), events |-> <<>>]
       ELSE IF index = None
       THEN [pool |-> [p EXCEPT !.allocator = r.a],
             result |-> PoolExhausted(p.capacity, p.capacity),
             events |-> <<>>]
       ELSE [pool |-> [p EXCEPT !.allocator = r.a,
                                !.storage[index + 1] =
                                    Poolable_on_acquire(value)],
             result |-> Ok(index),
             events |->
                LET init == p.storage[index + 1] # Uninit
                IN <<[ev |-> "claim", index |-> index, init |-> init],
                     [ev |-> "write", index |-> index, init |-> init],
                     [ev |-> "on_acquire", index |-> index, init |-> TRUE]>>]

\* allocate: claim, on_acquire on the value, write into the slot
FixedPool_allocate(p, value) ==
    LET r == StackAllocator_allocate(p.allocator)
        index == r.ret
        acquired == Poolable_on_acquire(value)
    IN IF r.panic # NoPanic
       THEN [pool |-> [p EXCEPT !.allocator = r.a],
             result |-> Panic(r.panic), events |-> <<>>]
       ELSE IF index = None
       THEN [pool |-> [p EXCEPT !.allocator = r.a],
             result |-> PoolExhausted(p.capacity, p.capacity),
             events |-> <<>>]
       ELSE [pool |-> [p EXCEPT !.allocator = r.a,
                                !.storage[index + 1] = acquired],
             result |-> Ok(index),
             events |->
                LET init == p.storage[index + 1] # Uninit
                IN <<[ev |-> "claim", index |-> index, init |-> init],
                     [ev |-> "on_acquire", index |-> index, init |-> init],
                     [ev |-> "write", index |-> index, init |-> init]>>]

\* get: the element behind storage.as_ptr().add(index)
FixedPool_get(p, index) ==
    IF index < Len(p.storage) THEN p.storage[index + 1] ELSE Uninit

\* get_mut followed by the store through the returned reference
FixedPool_get_mut_store(p, index, value) ==
    IF index < Len(p.storage)
    THEN [p EXCEPT !.storage[index + 1] = value]
    ELSE p

\* the three steps of return_to_pool, each on the outcome of the one before
FixedPool_on_release(st, index) ==
    LET slot == st.pool.storage[index + 1]
    IN [st EXCEPT
          !.pool.storage[index + 1] =
              IF slot = Uninit THEN Uninit ELSE Poolable_on_release(slot),
          !.events = Append(@, [ev |-> "on_release", index |-> index,
                                init |-> slot # Uninit])]

FixedPool_drop_in_place(st, index) ==
    LET slot == st.pool.storage[index + 1]
    IN [st EXCEPT
          !.pool.storage[index + 1] = Uninit,
          !.events = Append(@, [ev |-> "drop_in_place", index |-> index,
                                init |-> slot # Uninit])]

FixedPool_free(st, index) ==
    LET r == StackAllocator_free(st.pool.allocator, index)
    IN [st EXCEPT
          !.pool.allocator = r.a,
          !.result = IF r.panic = NoPanic THEN Ok(index) ELSE Panic(r.panic),
          !.events = IF r.panic = NoPanic
                     THEN Append(@, [ev |-> "free", index |-> index,
                                     init |-> FALSE])
                     ELSE @]

\* FixedPool_return_to_pool destroying the element before its on_release
FixedPool_return_to_pool_drop_first(p, index) ==
    IF ~(index < Len(p.storage))
    THEN [pool |-> p, result |-> Panic("index out of bounds"),
          events |-> <<>>]
    ELSE FixedPool_free(
            FixedPool_on_release(
               FixedPool_drop_in_place(
                  [pool |-> p, result |-> Ok(index), events |-> <<>>],
                  index),
               index),
            index)

FixedPool_return_to_pool(p, index) ==
    IF ~(index < Len(p.storage))
    THEN [pool |-> p, result |-> Panic("index out of bounds"),
          events |-> <<>>]
    ELSE FixedPool_free(
            FixedPool_drop_in_place(
               FixedPool_on_release(
                  [pool |-> p, result |-> Ok(index), events |-> <<>>],
                  index),
               index),
            index)

\* drop(handles): the handles of a Vec are dropped first to last
RECURSIVE FixedPool_drop_handles(_, _, _)
FixedPool_drop_handles(p, indices, k) ==
    IF k > Len(indices)
    THEN p
    ELSE FixedPool_drop_handles(
            FixedPool_return_to_pool(p, indices[k]).pool, indices, k + 1)

\* the loop "for value in values" of allocate_batch, from the k-th value on;
\* indices are those of the handles pushed so far
RECURSIVE FixedPool_allocate_each(_, _, _, _, _)
FixedPool_allocate_each(p, values, k, indices, events) ==
    IF k > Len(values)
    THEN [pool |-> p, result |-> Ok(indices), events |-> events]
    ELSE LET r == FixedPool_allocate(p, values[k])
         IN IF r.result.kind = "Ok"
            THEN FixedPool_allocate_each(r.pool, values, k + 1,
                                         Append(indices, r.result.index),
                                         events \o r.events)
            ELSE IF r.result.kind = "Panic"
            THEN [pool |-> r.pool, result |-> r.result, events |-> events]
            ELSE [pool |-> FixedPool_drop_handles(r.pool, indices, 1),
                  result |-> r.result, events |-> events]

\* FixedPool_allocate_batch without the test of available() up front
FixedPool_allocate_batch_no_check(p, values) ==
    FixedPool_allocate_each(p, values, 1, <<>>, <<>>)

\* allocate_batch: the result is Ok(indices of the handles) or the error
FixedPool_allocate_batch(p, values) ==
    IF Len(values) > FixedPool_available(p)
    THEN [pool |-> p,
          result |-> PoolExhausted(p.capacity, FixedPool_allocated(p)),
          events |-> <<>>]
    ELSE FixedPool_allocate_each(p, values, 1, <<>>, <<>>)

---------------------------------------------------------------------------
(* GrowingPool *)

GrowingPool_with_config(config) ==
    [kind |-> "GrowingPool",
     storage |-> <<[k \in 1..config.capacity |-> Uninit]>>,
     allocator |-> FreeListAllocator_new(config.capacity),
     capacity |-> config.capacity,
     chunk_boundaries |-> <<config.capacity>>,
     config |-> config]

GrowingPool_capacity(p) == p.capacity
GrowingPool_available(p) == FreeListAllocator_available(p.allocator)
GrowingPool_allocated(p) ==
    WrappingSub(GrowingPool_capacity(p), GrowingPool_available(p))

GrowingPool_can_grow(p) ==
    IF ~GrowthStrategy_allows_growth(p.config.growth_strategy)
    THEN FALSE
    ELSE IF p.config.max_capacity # None
    THEN GrowingPool_capacity(p) < p.config.max_capacity
    ELSE TRUE

GrowingPool_is_full(p) ==
    Allocator_is_full(p.allocator) /\ ~GrowingPool_can_grow(p)

GrowingPool_is_empty(p) == Allocator_is_empty(p.allocator)

\* GrowingPool_grow comparing the current capacity with the maximum
GrowingPool_grow_checks_current(p) ==
    LET growth_amount ==
            GrowthStrategy_compute_growth(p.config.growth_strategy, p.capacity)
        current_capacity == p.capacity
        new_capacity == current_capacity + growth_amount
        max == p.config.max_capacity
    IN IF growth_amount = 0
       THEN [pool |-> p,
             result |-> PoolExhausted(p.capacity,
                        WrappingSub(p.capacity,
                                    FreeListAllocator_available(p.allocator)))]
       ELSE IF max # None /\ current_capacity >= max
       THEN [pool |-> p,
             result |->
                MaxCapacityExceeded(current_capacity, new_capacity, max)]
       ELSE [pool |-> [p EXCEPT
                         !.storage =
                             Append(@, [k \in 1..growth_amount |-> Uninit]),
                         !.allocator =
                             FreeListAllocator_extend(@, growth_amount),
                         !.capacity = new_capacity,
                         !.chunk_boundaries = Append(@, new_capacity)],
             result |-> Ok(None)]

\* GrowingPool_grow reporting the growth step as the requested capacity
GrowingPool_grow_requests_delta(p) ==
    LET growth_amount ==
            GrowthStrategy_compute_growth(p.config.growth_strategy, p.capacity)
        current_capacity == p.capacity
        new_capacity == current_capacity + growth_amount
        max == p.config.max_capacity
    IN IF growth_amount = 0
       THEN [pool |-> p,
             result |-> PoolExhausted(p.capacity,
                        WrappingSub(p.capacity,
                                    FreeListAllocator_available(p.allocator)))]
       ELSE IF max # None /\ new_capacity > max
       THEN [pool |-> p,
             result |->
                MaxCapacityExceeded(current_capacity, growth_amount, max)]
       ELSE [pool |-> [p EXCEPT
                         !.storage =
                             Append(@, [k \in 1..growth_amount |-> Uninit]),
                         !.allocator =
                             FreeListAllocator_extend(@, growth_amount),
                         !.capacity = new_capacity,
                         !.chunk_boundaries = Append(@, new_capacity)],
             result |-> Ok(None)]

\* GrowingPool_grow without the test for a growth step of 0
GrowingPool_grow_no_zero_check(p) ==
    LET growth_amount ==
            GrowthStrategy_compute_growth(p.config.growth_strategy, p.capacity)
        current_capacity == p.capacity
        new_capacity == current_capacity + growth_amount
        max == p.config.max_capacity
    IN IF FALSE
       THEN [pool |-> p,
             result |-> PoolExhausted(p.capacity,
                        WrappingSub(p.capacity,
                                    FreeListAllocator_available(p.allocator)))]
       ELSE IF max # None /\ new_capacity > max
       THEN [pool |-> p,
             result |->
                MaxCapacityExceeded(current_capacity, new_capacity, max)]
       ELSE [pool |-> [p EXCEPT
                         !.storage =
                             Append(@, [k \in 1..growth_amount |-> Uninit]),
                         !.allocator =
                             FreeListAllocator_extend(@, growth_amount),
                         !.capacity = new_capacity,
                         !.chunk_boundaries = Append(@, new_capacity)],
             result |-> Ok(None)]

\* GrowingPool_grow recording the size of the new chunk as its boundary
GrowingPool_grow_boundary_is_delta(p) ==
    LET growth_amount ==
            GrowthStrategy_compute_growth(p.config.growth_strategy, p.capacity)
        current_capacity == p.capacity
        new_capacity == current_capacity + growth_amount
        max == p.config.max_capacity
    IN IF growth_amount = 0
       THEN [pool |-> p,
             result |-> PoolExhausted(p.capacity,
                        WrappingSub(p.capacity,
                                    FreeListAllocator_available(p.allocator)))]
       ELSE IF max # None /\ new_capacity > max
       THEN [pool |-> p,
             result |->
                MaxCapacityExceeded(current_capacity, new_capacity, max)]
       ELSE [pool |-> [p EXCEPT
                         !.storage =
                             Append(@, [k \in 1..growth_amount |-> Uninit]),
                         !.allocator =
                             FreeListAllocator_extend(@, growth_amount),
                         !.capacity = new_capacity,
                         !.chunk_boundaries = Append(@, growth_amount)],
             result |-> Ok(None)]

\* grow: the result is Ok(None), for Ok(()), when the pool grew
GrowingPool_grow(p) ==
    LET growth_amount ==
            GrowthStrategy_compute_growth(p.config.growth_strategy, p.capacity)
        current_capacity == p.capacity
        new_capacity == current_capacity + growth_amount
        max == p.config.max_capacity
    IN IF growth_amount = 0
       THEN [pool |-> p,
             result |-> PoolExhausted(p.capacity,
                        WrappingSub(p.capacity,
                                    FreeListAllocator_available(p.allocator)))]
       ELSE IF max # None /\ new_capacity > max
       THEN [pool |-> p,
             result |->
                MaxCapacityExceeded(current_capacity, new_capacity, max)]
       ELSE [pool |-> [p EXCEPT
                         !.storage =
                             Append(@, [k \in 1..growth_amount |-> Uninit]),
                         !.allocator =
                             FreeListAllocator_extend(@, growth_amount),
                         !.capacity = new_capacity,
                         !.chunk_boundaries = Append(@, new_capacity)],
             result |-> Ok(None)]

\* the scan "for chunk in storage.iter_mut()" of allocate, from chunk k on
\* (0-based); found is FALSE when no chunk holds the index
RECURSIVE ScanChunks(_, _, _)
ScanChunks(storage, k, remaining) ==
    IF k >= Len(storage)
    THEN [found |-> FALSE, chunk_idx |-> k, offset |-> remaining]
    ELSE IF remaining < Len(storage[k + 1])
    THEN [found |-> TRUE, chunk_idx |-> k, offset |-> remaining]
    ELSE ScanChunks(storage, k + 1, remaining - Len(storage[k + 1]))

\* slice::binary_search on a sorted slice: the position of target when it
\* is there, else the position where it would be inserted
BinarySearch(slice, target) ==
    IF \E k \in 1..Len(slice) : slice[k] = target
    THEN (CHOOSE k \in 1..Len(slice) : slice[k] = target) - 1
    ELSE Cardinality({k \in 1..Len(slice) : slice[k] < target})

\* GrowingPool_compute_chunk_location searching for index, not index + 1
GrowingPool_compute_chunk_location_off_by_one(p, index) ==
    LET boundaries == p.chunk_boundaries
        chunk_idx == BinarySearch(boundaries, index)
        offset == IF chunk_idx = 0 THEN index
                  ELSE index - boundaries[chunk_idx]
    IN [chunk_idx |-> chunk_idx, offset |-> offset]

GrowingPool_compute_chunk_location(p, index) ==
    LET boundaries == p.chunk_boundaries
        chunk_idx == BinarySearch(boundaries, index + 1)
        offset == IF chunk_idx = 0 THEN index
                  ELSE index - boundaries[chunk_idx]
    IN [chunk_idx |-> chunk_idx, offset |-> offset]

\* is loc a slot of the storage
InStorage(p, loc) ==
    /\ loc.chunk_idx < Len(p.storage)
    /\ loc.offset >= 0
    /\ loc.offset < Len(p.storage[loc.chunk_idx + 1])

\* the second half of allocate, once the index is claimed
GrowingPool_install(p, index, value) ==
    LET acquired == Poolable_on_acquire(value)
        loc == ScanChunks(p.storage, 0, index)
    IN IF ~loc.found
       THEN [pool |-> p, result |-> Panic("Index out of bounds"),
             events |-> <<>>]
       ELSE [pool |-> [p EXCEPT
                         !.storage[loc.chunk_idx + 1][loc.offset + 1] =
                             acquired],
             result |-> Ok(index),
             events |->
                LET init == p.storage[loc.chunk_idx + 1][loc.offset + 1]
                               # Uninit
                IN <<[ev |-> "claim", index |-> index, init |-> init],
                     [ev |-> "on_acquire", index |-> index, init |-> init],
                     [ev |-> "write", index |-> index, init |-> init]>>]

\* GrowingPool_allocate giving up after a successful grow, without the
\* second claim
GrowingPool_allocate_no_retry(p, value) ==
    LET r == FreeListAllocator_allocate(p.allocator)
    IN IF r.panic # NoPanic
       THEN [pool |-> [p EXCEPT !.allocator = r.a],
             result |-> Panic(r.panic), events |-> <<>>]
       ELSE IF r.ret # None
       THEN GrowingPool_install([p EXCEPT !.allocator = r.a], r.ret, value)
       ELSE LET g == GrowingPool_grow(p)
            IN IF g.result.kind # "Ok"
               THEN [pool |-> g.pool, result |-> g.result, events |-> <<>>]
               ELSE [pool |-> g.pool,
                     result |-> PoolExhausted(g.pool.capacity,
                                              g.pool.capacity),
                     events |-> <<>>]

\* GrowingPool_allocate growing as soon as it has claimed the last free slot
GrowingPool_allocate_grows_eagerly(p, value) ==
    LET r == FreeListAllocator_allocate(p.allocator)
    IN IF r.panic # NoPanic
       THEN [pool |-> [p EXCEPT !.allocator = r.a],
             result |-> Panic(r.panic), events |-> <<>>]
       ELSE IF r.ret # None
       THEN LET claimed_pool == [p EXCEPT !.allocator = r.a]
                g == GrowingPool_grow(claimed_pool)
            IN IF FreeListAllocator_available(r.a) = 0
                  /\ g.result.kind = "Ok"
               THEN GrowingPool_install(g.pool, r.ret, value)
               ELSE GrowingPool_install(claimed_pool, r.ret, value)
       ELSE LET g == GrowingPool_grow(p)
                again == FreeListAllocator_allocate(g.pool.allocator)
            IN IF g.result.kind # "Ok"
               THEN [pool |-> g.pool, result |-> g.result, events |-> <<>>]
               ELSE IF again.panic # NoPanic
               THEN [pool |-> [g.pool EXCEPT !.allocator = again.a],
                     result |-> Panic(again.panic), events |-> <<>>]
               ELSE IF again.ret = None
               THEN [pool |-> g.pool,
                     result |-> PoolExhausted(g.pool.capacity,
                                              g.pool.capacity),
                     events |-> <<>>]
               ELSE GrowingPool_install(
                       [g.pool EXCEPT !.allocator = again.a],
                       again.ret, value)

GrowingPool_allocate(p, value) ==
    LET r == FreeListAllocator_allocate(p.allocator)
    IN IF r.panic # NoPanic
       THEN [pool |-> [p EXCEPT !.allocator = r.a],
             result |-> Panic(r.panic), events |-> <<>>]
       ELSE IF r.ret # None
       THEN GrowingPool_install([p EXCEPT !.allocator = r.a], r.ret, value)
       ELSE LET g == GrowingPool_grow(p)
                again == FreeListAllocator_allocate(g.pool.allocator)
            IN IF g.result.kind # "Ok"
               THEN [pool |-> g.pool, result |-> g.result, events |-> <<>>]
               ELSE IF again.panic # NoPanic
               THEN [pool |-> [g.pool EXCEPT !.allocator = again.a],
                     result |-> Panic(again.panic), events |-> <<>>]
               ELSE IF again.ret = None
               THEN [pool |-> g.pool,
                     result |-> PoolExhausted(g.pool.capacity,
                                              g.pool.capacity),
                     events |-> <<>>]
               ELSE GrowingPool_install(
                       [g.pool EXCEPT !.allocator = again.a],
                       again.ret, value)

\* get: the element behind the pointer to (chunk_idx, offset)
GrowingPool_get(p, index) ==
    LET loc == GrowingPool_compute_chunk_location(p, index)
    IN IF InStorage(p, loc)
       THEN p.storage[loc.chunk_idx + 1][loc.offset + 1]
       ELSE Uninit

\* get_mut followed by the store through the returned reference
GrowingPool_get_mut_store(p, index, value) ==
    LET loc == GrowingPool_compute_chunk_location(p, index)
    IN IF InStorage(p, loc)
       THEN [p EXCEPT !.storage[loc.chunk_idx + 1][loc.offset + 1] = value]
       ELSE p

\* the three steps of return_to_pool, each on the outcome of the one before
GrowingPool_on_release(st, index, loc) ==
    LET slot == st.pool.storage[loc.chunk_idx + 1][loc.offset + 1]
    IN [st EXCEPT
          !.pool.storage[loc.chunk_idx + 1][loc.offset + 1] =
              IF slot = Uninit THEN Uninit ELSE Poolable_on_release(slot),
          !.events = Append(@, [ev |-> "on_release", index |-> index,
                                init |-> slot # Uninit])]

GrowingPool_drop_in_place(st, index, loc) ==
    LET slot == st.pool.storage[loc.chunk_idx + 1][loc.offset + 1]
    IN [st EXCEPT
          !.pool.storage[loc.chunk_idx + 1][loc.offset + 1] = Uninit,
          !.events = Append(@, [ev |-> "drop_in_place", index |-> index,
                                init |-> slot # Uninit])]

\* GrowingPool_free that leaves the index claimed
GrowingPool_free_keeps_claimed(st, index) ==
    [st EXCEPT !.result = Ok(index),
               !.events = Append(@, [ev |-> "free", index |-> index,
                                     init |-> FALSE])]

GrowingPool_free(st, index) ==
    LET r == FreeListAllocator_free(st.pool.allocator, index)
    IN [st EXCEPT
          !.pool.allocator = r.a,
          !.result = IF r.panic = NoPanic THEN Ok(index) ELSE Panic(r.panic),
          !.events = IF r.panic = NoPanic
                     THEN Append(@, [ev |-> "free", index |-> index,
                                     init |-> FALSE])
                     ELSE @]

GrowingPool_return_to_pool(p, index) ==
    LET loc == GrowingPool_compute_chunk_location(p, index)
    IN IF ~InStorage(p, loc)
       THEN [pool |-> p, result |-> Panic("index out of bounds"),
             events |-> <<>>]
       ELSE GrowingPool_free(
               GrowingPool_drop_in_place(
                  GrowingPool_on_release(
                     [pool |-> p, result |-> Ok(index), events |-> <<>>],
                     index, loc),
                  index, loc),
               index)

---------------------------------------------------------------------------
(* PoolInterface: what an OwnedHandle calls on its pool *)

PoolInterface_get(p, index) ==
    CASE p.kind = "FixedPool" -> FixedPool_get(p, index)
      [] p.kind = "GrowingPool" -> GrowingPool_get(p, index)

PoolInterface_get_mut_store(p, index, value) ==
    CASE p.kind = "FixedPool" -> FixedPool_get_mut_store(p, index, value)
      [] p.kind = "GrowingPool" -> GrowingPool_get_mut_store(p, index, value)

PoolInterface_return_to_pool(p, index) ==
    CASE p.kind = "FixedPool" -> FixedPool_return_to_pool(p, index)
      [] p.kind = "GrowingPool" -> GrowingPool_return_to_pool(p, index)

Pool_capacity(p) == p.capacity

Pool_available(p) ==
    CASE p.kind = "FixedPool" -> FixedPool_available(p)
      [] p.kind = "GrowingPool" -> GrowingPool_available(p)

Pool_allocated(p) ==
    CASE p.kind = "FixedPool" -> FixedPool_allocated(p)
      [] p.kind = "GrowingPool" -> GrowingPool_allocated(p)

Pool_allocate(p, value) ==
    CASE p.kind = "FixedPool" -> FixedPool_allocate(p, value)
      [] p.kind = "GrowingPool" -> GrowingPool_allocate(p, value)

\* Deref for OwnedHandle
OwnedHandle_deref(p, h) == PoolInterface_get(p, h.index)

---------------------------------------------------------------------------
(* A pool and its owned handles *)

GrowthStrategies ==
    {[kind |-> "None"]}
    \cup {[kind |-> "Linear", amount |-> n] : n \in 0..MaxAmount}
    \cup {[kind |-> "Exponential", num |-> 3, den |-> 2],
          [kind |-> "Exponential", num |-> 2, den |-> 1]}
    \cup {[kind |-> "Custom", compute |-> "half"]}

\* the configurations PoolConfigBuilder::build accepts: capacity >= 1 and
\* max_capacity, when given, >= capacity
GrowingConfigs ==
    {[capacity |-> c, max_capacity |-> m, growth_strategy |-> g] :
        c \in 1..MaxInitCap, m \in {None} \cup 1..CapBound,
        g \in GrowthStrategies}

\* the configuration FixedPool::new(capacity) builds
FixedConfigs ==
    {[capacity |-> c, max_capacity |-> None,
      growth_strategy |-> [kind |-> "None"]] : c \in 1..CapBound}

TrackerIdle ==
    /\ tracker = [kind |-> "none"]
    /\ claimed = {}
    /\ pinned = {}
    /\ toPin = 0
    /\ trackerOp = [op |-> "none", arg |-> None, ret |-> None,
                    panic |-> NoPanic]
    /\ released = <<>>
    /\ misuses = 0

\* no shared or weak handle exists
SharedIdle ==
    /\ rcs = <<>>
    /\ sharedHandles = EmptyBag
    /\ weakHandles = EmptyBag

\* no thread shares a pool
ThreadsIdle ==
    /\ mutex = None
    /\ threads = <<>>
    /\ lastRelease = [thread |-> None, index |-> None]
    /\ queue = <<>>

\* no builder is in use
BuilderIdle == builder = [kind |-> "none"]

StatsIdle ==
    /\ stats = [kind |-> "none"]
    /\ calls = [ok |-> 0, err |-> 0]

NoEvents == <<>>
\* a client that has not allocated yet
NewRound == [phase |-> "alloc", first |-> {}, second |-> {}]
NoBefore == [kind |-> "none"]
\* what a successful allocate leaves in before
Before(result) ==
    IF result.kind = "Ok"
    THEN [kind |-> "pool", pool |-> pool, handles |-> handles]
    ELSE NoBefore

Init ==
    /\ debug_assertions \in BOOLEAN
    /\ \/ \E config \in FixedConfigs : pool = FixedPool_with_config(config)
       \/ \E config \in GrowingConfigs :
             /\ config.max_capacity # None
                   => config.max_capacity >= config.capacity
             /\ pool = GrowingPool_with_config(config)
    /\ handles = EmptyBag
    /\ lastOp = [op |-> "new", arg |-> None, result |-> Ok(None),
                 events |-> NoEvents]
    /\ before = NoBefore
    /\ round = NewRound
    /\ TrackerIdle
    /\ SharedIdle /\ ThreadsIdle /\ BuilderIdle /\ StatsIdle

Running == lastOp.result.kind # "Panic"

\* the handle an Ok result of allocate carries; written is the value the
\* owner of the handle last put behind it
OwnedHandle_new(index, value) == [index |-> index, written |-> value]

AddHandle(bag, h) == bag (+) SetToBag({h})
RemoveHandle(bag, h) == bag (-) SetToBag({h})

FixedPoolAllocate(value) ==
    /\ Running
    /\ pool.kind = "FixedPool"
    /\ LET r == FixedPool_allocate(pool, value)
       IN /\ pool' = r.pool
          /\ handles' = IF r.result.kind = "Ok"
                        THEN AddHandle(handles,
                                OwnedHandle_new(r.result.index, value))
                        ELSE handles
          /\ lastOp' = [op |-> "allocate", arg |-> value,
                        result |-> r.result, events |-> r.events]
          /\ before' = Before(r.result)
    /\ UNCHANGED <<debug_assertions, trackerVars, round, extVars>>

\* the batches of values a client passes to allocate_batch
RECURSIVE SeqsUpTo(_, _)
SeqsUpTo(S, n) ==
    IF n = 0 THEN {<<>>}
    ELSE LET shorter == SeqsUpTo(S, n - 1)
         IN shorter \cup {Append(q, x) : q \in shorter, x \in S}

Batches == SeqsUpTo(Val, MaxBatch)

\* the handles an Ok result of allocate_batch carries
BatchHandles(indices, values) ==
    {OwnedHandle_new(indices[k], values[k]) : k \in 1..Len(indices)}

FixedPoolAllocateBatch(values) ==
    /\ Running
    /\ pool.kind = "FixedPool"
    /\ LET r == FixedPool_allocate_batch(pool, values)
       IN /\ pool' = r.pool
          /\ handles' = IF r.result.kind = "Ok"
                        THEN handles
                               (+) SetToBag(BatchHandles(r.result.index,
                                                         values))
                        ELSE handles
          /\ lastOp' = [op |-> "allocate_batch", arg |-> values,
                        result |-> r.result, events |-> r.events]
          /\ before' = NoBefore
    /\ UNCHANGED <<debug_assertions, trackerVars, round, extVars>>

\* the capacity an allocate on a full pool would grow the pool to
GrownCapacity(p) ==
    p.capacity
      + GrowthStrategy_compute_growth(p.config.growth_strategy, p.capacity)

GrowingPoolAllocate(value) ==
    /\ Running
    /\ pool.kind = "GrowingPool"
    /\ GrowingPool_available(pool) = 0 /\ pool.config.max_capacity = None
          => GrownCapacity(pool) <= CapBound
    /\ LET r == GrowingPool_allocate(pool, value)
       IN /\ pool' = r.pool
          /\ handles' = IF r.result.kind = "Ok"
                        THEN AddHandle(handles,
                                OwnedHandle_new(r.result.index, value))
                        ELSE handles
          /\ lastOp' = [op |-> "allocate", arg |-> value,
                        result |-> r.result, events |-> r.events]
          /\ before' = Before(r.result)
    /\ UNCHANGED <<debug_assertions, trackerVars, round, extVars>>

\* *handle = value, through DerefMut
OwnedHandleStore(h, value) ==
    /\ Running
    /\ BagIn(h, handles)
    /\ pool' = PoolInterface_get_mut_store(pool, h.index, value)
    /\ handles' = AddHandle(RemoveHandle(handles, h),
                            [h EXCEPT !.written = value])
    /\ lastOp' = [op |-> "store", arg |-> h.index, result |-> Ok(h.index),
                  events |-> NoEvents]
    /\ before' = NoBefore
    /\ UNCHANGED <<debug_assertions, trackerVars, round, extVars>>

\* Drop for OwnedHandle
OwnedHandleDrop(h) ==
    /\ Running
    /\ BagIn(h, handles)
    /\ LET r == PoolInterface_return_to_pool(pool, h.index)
       IN /\ pool' = r.pool
          /\ handles' = RemoveHandle(handles, h)
          /\ lastOp' = [op |-> "drop", arg |-> h.index, result |-> r.result,
                        events |-> r.events]
          /\ before' = IF /\ lastOp.op = "allocate"
                          /\ lastOp.result.kind = "Ok"
                          /\ lastOp.result.index = h.index
                          /\ r.result.kind = "Ok"
                       THEN before ELSE NoBefore
    /\ UNCHANGED <<debug_assertions, trackerVars, round, extVars>>

Next ==
    \/ \E value \in Val : FixedPoolAllocate(value)
    \/ \E value \in Val : GrowingPoolAllocate(value)
    \/ \E h \in BagToSet(handles) : \E value \in Val :
          OwnedHandleStore(h, value)
    \/ \E h \in BagToSet(handles) : OwnedHandleDrop(h)

Spec == Init /\ [][Next]_vars

\* a fixed pool whose client also allocates in batches
FixedInit == Init /\ pool.kind = "FixedPool"

FixedNext ==
    \/ \E value \in Val : FixedPoolAllocate(value)
    \/ \E values \in Batches : FixedPoolAllocateBatch(values)
    \/ \E h \in BagToSet(handles) : \E value \in Val :
          OwnedHandleStore(h, value)
    \/ \E h \in BagToSet(handles) : OwnedHandleDrop(h)

SpecFixed == FixedInit /\ [][FixedNext]_vars

---------------------------------------------------------------------------
(* A client that works in rounds: from a pool without live handles it
   allocates N times, drops the N handles in any order, allocates N times
   again, drops these handles and starts over *)

RoundAllocate(value) ==
    /\ Running
    /\ \/ round.phase = "alloc"
       \/ /\ round.phase = "realloc"
          /\ Cardinality(round.second) < Cardinality(round.first)
    /\ pool.kind = "GrowingPool" /\ GrowingPool_available(pool) = 0
          /\ pool.config.max_capacity = None
          => GrownCapacity(pool) <= CapBound
    /\ LET r == Pool_allocate(pool, value)
           ok == r.result.kind = "Ok"
       IN /\ pool' = r.pool
          /\ handles' = IF ok
                        THEN AddHandle(handles,
                                OwnedHandle_new(r.result.index, value))
                        ELSE handles
          /\ lastOp' = [op |-> "allocate", arg |-> value,
                        result |-> r.result, events |-> r.events]
          /\ round' =
                IF ~ok THEN round
                ELSE IF round.phase = "alloc"
                THEN [round EXCEPT !.first = @ \cup {r.result.index}]
                ELSE [round EXCEPT !.second = @ \cup {r.result.index}]
    /\ UNCHANGED <<debug_assertions, trackerVars, before, extVars>>

RoundDrop(h) ==
    /\ Running
    /\ BagIn(h, handles)
    /\ round.phase = "realloc"
          => Cardinality(round.second) = Cardinality(round.first)
    /\ LET r == PoolInterface_return_to_pool(pool, h.index)
           empty == RemoveHandle(handles, h) = EmptyBag
       IN /\ pool' = r.pool
          /\ handles' = RemoveHandle(handles, h)
          /\ lastOp' = [op |-> "drop", arg |-> h.index, result |-> r.result,
                        events |-> r.events]
          /\ round' =
                IF round.phase \in {"alloc", "drop"}
                THEN [round EXCEPT
                        !.phase = IF empty THEN "realloc" ELSE "drop"]
                ELSE IF empty THEN NewRound
                ELSE [round EXCEPT !.phase = "rest"]
    /\ UNCHANGED <<debug_assertions, trackerVars, before, extVars>>

RoundsNext ==
    \/ \E value \in Val : RoundAllocate(value)
    \/ \E h \in BagToSet(handles) : RoundDrop(h)

SpecRounds == Init /\ [][RoundsNext]_vars

---------------------------------------------------------------------------
(* A slot tracker on its own: claim, release of a live index, extend *)

NoTrackerOp == [op |-> "new", arg |-> None, ret |-> None, panic |-> NoPanic]

TrackerKinds == {"Stack", "FreeList", "Bitmap"}

\* capacities next to the end of the first bitmap word
BoundaryCaps == {BITS_PER_WORD - 1, BITS_PER_WORD}

PoolIdle ==
    /\ pool = [kind |-> "none"]
    /\ handles = EmptyBag
    /\ lastOp = [op |-> "none", arg |-> None, result |-> Ok(None),
                 events |-> <<>>]
    /\ before = [kind |-> "none"]
    /\ round = [phase |-> "none", first |-> {}, second |-> {}]

\* a tracker as new(capacity) leaves it; a client of a tracker built next
\* to a word boundary first claims all but BoundarySlack slots and keeps them
TrackerInit ==
    /\ debug_assertions \in BOOLEAN
    /\ \E kind \in TrackerKinds :
          \/ \E capacity \in 0..TrackerInitCap :
                /\ tracker = Allocator_new(kind, capacity)
                /\ toPin = 0
          \/ \E capacity \in BoundaryCaps :
                /\ tracker = Allocator_new(kind, capacity)
                /\ toPin = capacity - BoundarySlack
    /\ claimed = {}
    /\ pinned = {}
    /\ trackerOp = NoTrackerOp
    /\ released = <<>>
    /\ misuses = 0
    /\ PoolIdle
    /\ SharedIdle /\ ThreadsIdle /\ BuilderIdle /\ StatsIdle

TrackerClaim ==
    /\ trackerOp.panic = NoPanic
    /\ LET r == Allocator_allocate(tracker)
       IN /\ tracker' = r.a
          /\ claimed' = IF r.ret = None THEN claimed ELSE claimed \cup {r.ret}
          /\ pinned' = IF toPin > 0 /\ r.ret # None
                       THEN pinned \cup {r.ret} ELSE pinned
          /\ toPin' = IF toPin > 0 THEN toPin - 1 ELSE 0
          /\ trackerOp' = [op |-> "claim", arg |-> None, ret |-> r.ret,
                           panic |-> r.panic]
          /\ released' = IF r.ret # None /\ released # <<>>
                         THEN Front(released) ELSE released
    /\ UNCHANGED <<debug_assertions, misuses, poolVars, extVars>>

TrackerRelease(index) ==
    /\ trackerOp.panic = NoPanic
    /\ toPin = 0
    /\ misuses = 0
    /\ index \in claimed \ pinned
    /\ LET r == Allocator_free(tracker, index)
       IN /\ tracker' = r.a
          /\ claimed' = IF r.panic = NoPanic THEN claimed \ {index}
                        ELSE claimed
          /\ trackerOp' = [op |-> "release", arg |-> index, ret |-> None,
                           panic |-> r.panic]
          /\ released' = IF r.panic = NoPanic THEN Append(released, index)
                         ELSE released
    /\ UNCHANGED <<debug_assertions, pinned, toPin, misuses, poolVars,
                 extVars>>

TrackerExtend(additional) ==
    /\ trackerOp.panic = NoPanic
    /\ toPin = 0
    /\ misuses = 0
    /\ tracker.capacity - Cardinality(pinned) + additional <= MaxActive
    /\ tracker' = Allocator_extend(tracker, additional)
    /\ trackerOp' = [op |-> "extend", arg |-> additional, ret |-> None,
                     panic |-> NoPanic]
    /\ released' = <<>>
    /\ UNCHANGED <<debug_assertions, claimed, pinned, toPin, misuses,
                   poolVars, extVars>>

TrackerNext ==
    \/ TrackerClaim
    \/ \E index \in claimed : TrackerRelease(index)
    \/ \E additional \in 0..MaxExtend : TrackerExtend(additional)

SpecTracker == TrackerInit /\ [][TrackerNext]_vars

\* the indices a faulty client releases: one that is below capacity and not
\* live, the first two at or beyond capacity, the first one beyond the last
\* word of the bitmap
NotLiveIndices ==
    ((0..(tracker.capacity + 1)) \ claimed)
      \cup {NumWords(tracker.capacity) * BITS_PER_WORD}

\* free(index) on an index that is not live; a client that has done so
\* goes on with claims only
TrackerReleaseNotLive(index) ==
    /\ trackerOp.panic = NoPanic
    /\ toPin = 0
    /\ misuses < MaxMisuse
    /\ index \in NotLiveIndices
    /\ LET r == Allocator_free(tracker, index)
       IN /\ tracker' = r.a
          /\ trackerOp' = [op |-> "release_not_live", arg |-> index,
                           ret |-> None, panic |-> r.panic]
    /\ misuses' = misuses + 1
    /\ UNCHANGED <<debug_assertions, claimed, pinned, toPin, released,
                   poolVars, extVars>>

TrackerMisuseNext ==
    \/ TrackerClaim
    \/ \E index \in claimed : TrackerRelease(index)
    \/ \E additional \in 0..MaxExtend : TrackerExtend(additional)
    \/ \E index \in NotLiveIndices : TrackerReleaseNotLive(index)

SpecTrackerMisuse == TrackerInit /\ [][TrackerMisuseNext]_vars

---------------------------------------------------------------------------
(* A Bitmap tracker whose client also asks for several free slots at once *)

\* the largest count a client passes to find_free_slots
MaxCount == 3

TrackerFindFreeSlots(count) ==
    /\ trackerOp.panic = NoPanic
    /\ toPin = 0
    /\ tracker.kind = "Bitmap"
    /\ LET r == BitmapAllocator_find_free_slots(tracker, count)
       IN /\ tracker' = r.a
          /\ trackerOp' = [op |-> "find_free_slots", arg |-> count,
                           ret |-> IF r.ret.kind = "Some"
                                   THEN Len(r.ret.indices) ELSE None,
                           panic |-> NoPanic, indices |-> r.ret.indices]
    /\ UNCHANGED <<debug_assertions, claimed, pinned, toPin, released,
                   misuses, poolVars, extVars>>

TrackerBatchNext ==
    \/ TrackerClaim
    \/ \E index \in claimed : TrackerRelease(index)
    \/ \E additional \in 0..MaxExtend : TrackerExtend(additional)
    \/ \E count \in 0..MaxCount : TrackerFindFreeSlots(count)

SpecTrackerBatch == TrackerInit /\ [][TrackerBatchNext]_vars

\* the free structure of a tracker, as a sequence where it is one
FreeSeq(a) ==
    CASE a.kind = "Stack" -> a.free_stack
      [] a.kind = "FreeList" -> a.free_list

\* the indices a tracker holds as free
FreeSet(a) ==
    IF a.kind = "Bitmap"
    THEN {i \in 0..(a.capacity - 1) : ~BitmapAllocator_is_allocated(a, i)}
    ELSE SeqToSet(FreeSeq(a))

\* no index occurs twice in the free structure
NoDuplicateFree(a) ==
    a.kind # "Bitmap" => Cardinality(SeqToSet(FreeSeq(a))) = Len(FreeSeq(a))

\* C3: for each tracker, after any claims, releases of live indices and
\* extends, the indices held free are exactly {0..capacity} minus the
\* claimed-and-not-released ones, none of them twice, and available()
\* counts them.
C3_FreeIsComplementOfLive ==
    trackerOp.panic = NoPanic =>
        /\ FreeSet(tracker) = (0..(tracker.capacity - 1)) \ claimed
        /\ NoDuplicateFree(tracker)
        /\ Allocator_available(tracker) = Cardinality(FreeSet(tracker))

\* a tracker that was extended across the word boundary, with a released
\* index claimed again and a slot of the second word live
C3_Witness ==
    /\ tracker.capacity > BITS_PER_WORD
    /\ trackerOp.op = "release"
    /\ trackerOp.panic = NoPanic
    /\ \E i \in claimed \ pinned : i >= BITS_PER_WORD
    /\ FreeSet(tracker) # {}

---------------------------------------------------------------------------
(* Properties of the pools *)

IsFixed == pool.kind = "FixedPool"
IsGrowing == pool.kind = "GrowingPool"
LiveHandles == BagToSet(handles)
LiveIndices == {h.index : h \in LiveHandles}
Grown == IsGrowing /\ Len(pool.storage) >= 2
\* the growth step of the pool at its current capacity
Delta == GrowthStrategy_compute_growth(pool.config.growth_strategy,
                                       pool.capacity)
AllocateFailed == lastOp.op = "allocate" /\ lastOp.result.kind # "Ok"
AllocateOk == lastOp.op = "allocate" /\ lastOp.result.kind = "Ok"

\* C1: no two live owned handles of a fixed or growing pool refer to the
\* same slot index, and the index of every live handle is below capacity().
C1_LiveHandlesDistinctInRange ==
    \A h \in LiveHandles :
        /\ CopiesIn(h, handles) = 1
        /\ h.index >= 0
        /\ h.index < Pool_capacity(pool)
        /\ \A g \in LiveHandles : g.index = h.index => g = h

\* a grown pool with three live handles whose last allocate reused a slot
\* of the first chunk
C1_Witness ==
    /\ Grown
    /\ AllocateOk
    /\ lastOp.result.index < pool.config.capacity
    /\ BagCardinality(handles) >= 3

C2_Counts ==
    /\ Pool_allocated(pool) = BagCardinality(handles)
    /\ Pool_available(pool) + Pool_allocated(pool) = Pool_capacity(pool)

C2_Steps ==
    /\ lastOp'.op = "allocate" /\ lastOp'.result.kind = "Ok"
          => Pool_available(pool') =
                Pool_available(pool)
                  + (Pool_capacity(pool') - Pool_capacity(pool)) - 1
    /\ lastOp'.op = "drop" /\ lastOp'.result.kind = "Ok"
          => Pool_available(pool') = Pool_available(pool) + 1

\* C2: in every state allocated() is the number of live handles and
\* available() + allocated() = capacity(); a successful allocate lowers
\* available() by 1 once the slots of any growth are counted, and a handle
\* drop raises it by 1.
C2_AvailablePlusAllocated == []C2_Counts /\ [][C2_Steps]_vars

\* a pool that has grown while handles were live, one of them dropped since
C2_Witness ==
    /\ Grown
    /\ lastOp.op = "drop"
    /\ BagCardinality(handles) >= 2
    /\ Pool_available(pool) >= 2

ExpectedDropEvents(index) ==
    <<[ev |-> "on_release", index |-> index, init |-> TRUE],
      [ev |-> "drop_in_place", index |-> index, init |-> TRUE],
      [ev |-> "free", index |-> index, init |-> FALSE]>>

C4_AfterDrop ==
    lastOp.op = "drop" =>
        /\ lastOp.result.kind = "Ok"
        /\ lastOp.events = ExpectedDropEvents(lastOp.arg)
        /\ lastOp.arg \in FreeSet(pool.allocator)
        /\ PoolInterface_get(pool, lastOp.arg) = Uninit
        /\ lastOp.arg \notin LiveIndices

C4_OnlyDropFrees ==
    \A i \in 0..(Pool_capacity(pool) - 1) :
        i \notin FreeSet(pool.allocator) /\ i \in FreeSet(pool'.allocator)
            => lastOp'.op = "drop" /\ lastOp'.arg = i

\* C4: dropping an owned handle runs, once each and in this order, the
\* on_release hook on the live element, the destruction of the element in
\* place and the release of the index to the tracker; afterwards the index
\* is free, and a slot that is not free becomes free only by such a drop.
C4_DropOrder == []C4_AfterDrop /\ [][C4_OnlyDropFrees]_vars

\* a handle of the second chunk of a grown pool was dropped
C4_Witness ==
    /\ Grown
    /\ lastOp.op = "drop"
    /\ lastOp.arg >= pool.config.capacity
    /\ LiveIndices # {}

C6_FixedAllocateFailsIffFull ==
    [][IsFixed /\ lastOp'.op = "allocate" =>
          /\ lastOp'.result.kind # "Ok" <=> FixedPool_available(pool) = 0
          /\ lastOp'.result.kind # "Ok" =>
                /\ lastOp'.result =
                      PoolExhausted(FixedPool_capacity(pool),
                                    FixedPool_capacity(pool))
                /\ FixedPool_capacity(pool') = FixedPool_capacity(pool)
                /\ FixedPool_available(pool') = FixedPool_available(pool)
                /\ handles' = handles
                /\ FreeSet(pool'.allocator) = FreeSet(pool.allocator)]_vars

\* a fixed pool of three slots, all live, refused a fourth element
C6_Witness ==
    /\ IsFixed
    /\ FixedPool_capacity(pool) = 3
    /\ AllocateFailed
    /\ BagCardinality(handles) = 3

C9_GrowthIsCapped ==
    /\ IsGrowing
    /\ AllocateFailed
    /\ pool.config.max_capacity # None
    /\ Delta > 0
    => GrowingPool_capacity(pool) = pool.config.max_capacity

\* C10: when a growing pool is full and its growth step is 0, allocate
\* fails with PoolExhausted{capacity, live count}, never with
\* MaxCapacityExceeded, and the pool and its handles are unchanged.
C10_ZeroGrowthIsPoolExhausted ==
    [][/\ IsGrowing
       /\ GrowingPool_available(pool) = 0
       /\ Delta = 0
       /\ lastOp'.op = "allocate"
       => /\ lastOp'.result =
                PoolExhausted(GrowingPool_capacity(pool),
                              BagCardinality(handles))
          /\ pool' = pool
          /\ handles' = handles]_vars

\* a pool with a Custom growth function that returned 0, and one with a
\* maximum above its capacity, refused an element
C10_Witness ==
    /\ IsGrowing
    /\ AllocateFailed
    /\ lastOp.result.kind = "PoolExhausted"
    /\ pool.config.growth_strategy.kind \in {"Custom", "Linear"}
    /\ pool.config.max_capacity # None
    /\ pool.config.max_capacity > pool.capacity

\* the growth step fits under max_capacity, when there is one
GrowthFits ==
    pool.config.max_capacity # None
        => pool.capacity + Delta <= pool.config.max_capacity
\* the indices a growth of the pool at its current capacity adds
NewIndices == pool.capacity..(pool.capacity + Delta - 1)

\* C11: when a full growing pool grows by delta inside allocate, capacity()
\* rises by exactly delta, the retried claim succeeds with one of the
\* indices old_capacity..old_capacity + delta - 1, the others of these are
\* exactly the free indices afterwards, and the live indices are those of
\* before plus the claimed one.
C11_GrowthAddsExactlyDelta ==
    [][/\ IsGrowing
       /\ GrowingPool_available(pool) = 0
       /\ Delta > 0
       /\ GrowthFits
       /\ lastOp'.op = "allocate"
       => /\ lastOp'.result.kind = "Ok"
          /\ GrowingPool_capacity(pool') = GrowingPool_capacity(pool) + Delta
          /\ lastOp'.result.index \in NewIndices
          /\ FreeSet(pool'.allocator) = NewIndices \ {lastOp'.result.index}
          /\ GrowingPool_available(pool') = Delta - 1
          /\ LiveIndices' = LiveIndices \cup {lastOp'.result.index}
          /\ BagCardinality(handles') = BagCardinality(handles) + 1]_vars

\* a full pool with two live handles grew by a chunk of two slots and
\* claimed one of them
C11_Witness ==
    /\ Grown
    /\ AllocateOk
    /\ Len(Last(pool.storage)) = 2
    /\ lastOp.result.index >= pool.capacity - 2
    /\ FreeSet(pool.allocator) \subseteq {pool.capacity - 2, pool.capacity - 1}
    /\ GrowingPool_available(pool) = 1
    /\ BagCardinality(handles) = 3

\* the lengths of the chunks of the storage
ChunkLens(p) == [k \in 1..Len(p.storage) |-> Len(p.storage[k])]

\* C12: an allocate on a growing pool with available() > 0 succeeds with an
\* index that was free, and leaves capacity(), the chunk list and the chunk
\* boundaries as they were.
C12_NoGrowthWhileFree ==
    [][/\ IsGrowing
       /\ GrowingPool_available(pool) > 0
       /\ lastOp'.op = "allocate"
       => /\ lastOp'.result.kind = "Ok"
          /\ lastOp'.result.index \in FreeSet(pool.allocator)
          /\ GrowingPool_capacity(pool') = GrowingPool_capacity(pool)
          /\ ChunkLens(pool') = ChunkLens(pool)
          /\ pool'.chunk_boundaries = pool.chunk_boundaries
          /\ GrowingPool_available(pool') = GrowingPool_available(pool) - 1]_vars

\* a grown pool that could grow again took the last free slot, one of the
\* first chunk, without growing
C12_Witness ==
    /\ Grown
    /\ AllocateOk
    /\ Len(pool.storage) = 2
    /\ lastOp.result.index < pool.config.capacity
    /\ GrowingPool_available(pool) = 0
    /\ GrowingPool_can_grow(pool)
    /\ Delta > 0

\* the slot of the storage compute_chunk_location finds for an index
SlotOf(p, index) == GrowingPool_compute_chunk_location(p, index)

\* the number of slots in the chunks before chunk k (0-based)
RECURSIVE SlotsBefore(_, _)
SlotsBefore(p, k) ==
    IF k = 0 THEN 0 ELSE SlotsBefore(p, k - 1) + Len(p.storage[k])

C13_LocationsNow ==
    IsGrowing =>
        \A i \in 0..(pool.capacity - 1) :
            /\ InStorage(pool, SlotOf(pool, i))
            /\ SlotsBefore(pool, SlotOf(pool, i).chunk_idx)
                  + SlotOf(pool, i).offset = i

C13_LocationsKept ==
    IsGrowing =>
        /\ \A i \in 0..(pool.capacity - 1) : SlotOf(pool', i) = SlotOf(pool, i)
        /\ Len(pool'.storage) >= Len(pool.storage)
        /\ SubSeq(ChunkLens(pool'), 1, Len(pool.storage)) = ChunkLens(pool)
        /\ SubSeq(pool'.chunk_boundaries, 1, Len(pool.chunk_boundaries))
              = pool.chunk_boundaries

\* C13: compute_chunk_location maps every index below capacity() to a slot
\* of the storage, the i-th in chunk order, and no step of the pool changes
\* the location of an index that was below capacity() before it: growth
\* only appends a chunk and a boundary.
C13_ChunkLocationStable == []C13_LocationsNow /\ [][C13_LocationsKept]_vars

\* a pool that has grown twice, with a live handle in its first chunk
C13_Witness ==
    /\ IsGrowing
    /\ Len(pool.storage) >= 3
    /\ Len(pool.chunk_boundaries) = Len(pool.storage)
    /\ \E h \in LiveHandles : h.index < pool.config.capacity
    /\ \E h \in LiveHandles : SlotOf(pool, h.index).chunk_idx = 2

\* C14: on the Stack tracker a claim returns the index released most
\* recently among those released and not claimed since: after releases of
\* a, b, c the next three claims return c, b, a.
C14_StackIsLifo ==
    [][/\ tracker.kind = "Stack"
       /\ released # <<>>
       /\ trackerOp'.op = "claim"
       => trackerOp'.ret = Last(released)]_vars

\* three indices were released on a Stack tracker and a claim has taken the
\* last of them back
C14_Witness ==
    /\ tracker.kind = "Stack"
    /\ trackerOp.op = "claim"
    /\ trackerOp.ret # None
    /\ Len(released) = 2
    /\ trackerOp.ret \notin SeqToSet(released)
    /\ released[1] # released[2]

\* the free indices of a bitmap tracker that lie in word w
FreeInWord(a, w) == {i \in FreeSet(a) : i \div BITS_PER_WORD = w}

\* the words of a bitmap tracker with a free index, as offsets from the
\* hinted word in scan order
FreeWordOffsets(a) ==
    {k \in 0..(Len(a.bitmap) - 1) :
        FreeInWord(a, (a.next_free_hint + k) % Len(a.bitmap)) # {}}

\* the first word with a free index, scanning from the hinted word and
\* wrapping around
FirstFreeWord(a) ==
    (a.next_free_hint + Min(FreeWordOffsets(a))) % Len(a.bitmap)

\* C15 as claimed: a successful claim on a Bitmap tracker returns the
\* lowest-indexed free slot, also for a capacity of more than one word.
C15_BitmapLowestFree ==
    [][/\ tracker.kind = "Bitmap"
       /\ trackerOp'.op = "claim"
       /\ trackerOp'.ret # None
       => trackerOp'.ret = Min(FreeSet(tracker))]_vars

C15_HintedClaim ==
    tracker.kind = "Bitmap" /\ trackerOp'.op = "claim" =>
        /\ trackerOp'.ret # None <=> FreeSet(tracker) # {}
        /\ trackerOp'.ret # None =>
              /\ trackerOp'.ret =
                    Min(FreeInWord(tracker, FirstFreeWord(tracker)))
              /\ tracker'.next_free_hint = trackerOp'.ret \div BITS_PER_WORD
              /\ tracker.capacity <= BITS_PER_WORD
                    => trackerOp'.ret = Min(FreeSet(tracker))

C15_HintFollows ==
    tracker.kind = "Bitmap" =>
        /\ trackerOp'.op = "release" /\ trackerOp'.panic = NoPanic
              => tracker'.next_free_hint = trackerOp'.arg \div BITS_PER_WORD
        /\ trackerOp'.op = "extend"
              => tracker'.next_free_hint = tracker.next_free_hint

\* C15 amended: a claim on a Bitmap tracker succeeds exactly when a slot is
\* free, and returns the lowest free index of the first word that has one,
\* scanning from the hinted word and wrapping around; the hinted word is
\* the word of the index last claimed or released.  Within one word this is
\* the lowest free index.
C15_BitmapLowestFreeInHintedWord ==
    [][C15_HintedClaim /\ C15_HintFollows]_vars

\* a claim on a Bitmap tracker of two words returned an index of the second
\* word while an index of the first word was free
C15_Witness ==
    /\ tracker.kind = "Bitmap"
    /\ Len(tracker.bitmap) = 2
    /\ trackerOp.op = "claim"
    /\ trackerOp.ret # None
    /\ trackerOp.ret >= BITS_PER_WORD
    /\ \E i \in FreeSet(tracker) : i < BITS_PER_WORD

\* C16: in a build with debug assertions, a release of an index below
\* capacity that is not live panics on each of the three trackers and
\* leaves the tracker as it was: the free stack or list gains no entry, the
\* shadow bitmap is unchanged and the allocated count of the Bitmap
\* tracker is not decremented.
C16_DoubleReleaseDetected ==
    [][/\ debug_assertions
       /\ trackerOp'.op = "release_not_live"
       /\ trackerOp'.arg < tracker.capacity
       => /\ trackerOp'.panic = "double free detected"
          /\ tracker' = tracker
          /\ Allocator_available(tracker') = Allocator_available(tracker)]_vars

\* a Bitmap tracker with a live index refused the release of an index that
\* had been released before
C16_Witness ==
    /\ debug_assertions
    /\ tracker.kind = "Bitmap"
    /\ trackerOp.op = "release_not_live"
    /\ trackerOp.arg < tracker.capacity
    /\ trackerOp.panic = "double free detected"
    /\ claimed # {}
    /\ Allocator_available(tracker) < tracker.capacity

\* C17: with and without debug assertions, a release of an index at or
\* beyond capacity is reported as an error, and no claim returns an index
\* at or beyond capacity.
C17_OutOfRangeReleaseIsError ==
    /\ trackerOp.op = "release_not_live" /\ trackerOp.arg >= tracker.capacity
          => trackerOp.panic # NoPanic
    /\ trackerOp.op = "claim" /\ trackerOp.ret # None
          => trackerOp.ret < tracker.capacity

\* C18: FixedPool.allocate_batch(values) with values.len() <= available()
\* returns values.len() handles with pairwise distinct indices that were
\* free, an empty list for an empty batch, and lowers available() by
\* values.len(); otherwise it returns PoolExhausted{capacity, allocated()}
\* and leaves the pool and its handles as they were.
C18_BatchAllOrNothing ==
    [][IsFixed /\ lastOp'.op = "allocate_batch" =>
          IF Len(lastOp'.arg) <= FixedPool_available(pool)
          THEN /\ lastOp'.result.kind = "Ok"
               /\ Len(lastOp'.result.index) = Len(lastOp'.arg)
               /\ Cardinality(SeqToSet(lastOp'.result.index))
                     = Len(lastOp'.arg)
               /\ SeqToSet(lastOp'.result.index)
                     \subseteq FreeSet(pool.allocator)
               /\ FixedPool_available(pool')
                     = FixedPool_available(pool) - Len(lastOp'.arg)
               /\ BagCardinality(handles')
                     = BagCardinality(handles) + Len(lastOp'.arg)
               /\ LiveIndices' =
                     LiveIndices \cup SeqToSet(lastOp'.result.index)
          ELSE /\ lastOp'.result =
                     PoolExhausted(FixedPool_capacity(pool),
                                   FixedPool_allocated(pool))
               /\ pool' = pool
               /\ handles' = handles]_vars

\* a fixed pool with a live handle took a batch of two values
C18_Witness ==
    /\ IsFixed
    /\ lastOp.op = "allocate_batch"
    /\ lastOp.result.kind = "Ok"
    /\ Len(lastOp.result.index) = 2
    /\ BagCardinality(handles) = 3
    /\ FixedPool_available(pool) = 1

\* the last two operations were a successful allocate and the drop of the
\* handle it returned
RoundTrip == lastOp.op = "drop" /\ before.kind = "pool"

\* the allocate of the round trip grew the pool
RoundTripGrew == RoundTrip /\ before.pool.capacity # pool.capacity

\* C19 as claimed: for fixed and growing pools and every reachable state, a
\* successful allocate followed at once by the drop of the returned handle
\* leaves the pool (capacity, available, the order of future claims) and
\* the live handles as they were before the allocate.
C19_AllocateDropIsIdentity ==
    RoundTrip => pool = before.pool /\ handles = before.handles

\* C19 amended: the round trip leaves the pool and the live handles as
\* they were when a slot was free at the allocate; when a growing pool was
\* full and grew, the live handles are as they were, the old chunks and
\* boundaries are kept, and capacity() and available() are larger by the
\* growth step.
C19_AllocateDropIsIdentityUnlessGrown ==
    RoundTrip =>
        /\ handles = before.handles
        /\ Pool_available(before.pool) > 0 => pool = before.pool
        /\ Pool_available(before.pool) = 0 =>
              /\ IsGrowing
              /\ pool.capacity > before.pool.capacity
              /\ pool.capacity =
                    before.pool.capacity
                      + GrowthStrategy_compute_growth(
                           before.pool.config.growth_strategy,
                           before.pool.capacity)
              /\ Pool_available(pool) = pool.capacity - before.pool.capacity
              /\ SubSeq(pool.chunk_boundaries, 1,
                        Len(before.pool.chunk_boundaries))
                    = before.pool.chunk_boundaries

\* a grown pool with two live handles and two free slots, one in each
\* chunk, after an allocate and the drop of its handle
C19_Witness ==
    /\ RoundTrip
    /\ ~RoundTripGrew
    /\ Grown
    /\ BagCardinality(handles) >= 2
    /\ \E i, j \in FreeSet(pool.allocator) :
          i < pool.config.capacity /\ j >= pool.config.capacity

C20_AfterDrops ==
    /\ round.phase = "realloc" /\ round.second = {}
          => /\ handles = EmptyBag
             /\ Pool_available(pool) = Pool_capacity(pool)
    /\ round.phase = "realloc"
          => /\ round.second \subseteq round.first
             /\ LiveIndices = round.second
    /\ round.phase = "realloc"
          /\ Cardinality(round.second) = Cardinality(round.first)
          => round.second = round.first

C20_Reallocate ==
    round.phase = "realloc" /\ lastOp'.op = "allocate"
        => /\ lastOp'.result.kind = "Ok"
           /\ Pool_capacity(pool') = Pool_capacity(pool)

\* C20: from a pool without live handles, after N successful allocations
\* and the drop of all N handles in any order, available() = capacity(),
\* and the next N allocations succeed without growth and return exactly
\* the set of indices the first N returned.
C20_SameIndicesAgain == []C20_AfterDrops /\ [][C20_Reallocate]_vars

\* a pool that grew during the first two allocations has returned the same
\* two indices, one of them of the second chunk, after both were dropped
C20_Witness ==
    /\ Grown
    /\ round.phase = "realloc"
    /\ Cardinality(round.first) = 2
    /\ round.second = round.first
    /\ \E i \in round.first : i >= pool.config.capacity
    /\ lastOp.op = "allocate"

---------------------------------------------------------------------------
(* SharedHandle and WeakHandle: an Rc<SharedHandleInner> and its Weak
   pointers over a FixedPool.  An Rc allocation is a record: index is the
   field of SharedHandleInner, strong and weak are what Rc::strong_count
   and Rc::weak_count count, returned is the number of calls of
   return_to_pool made by Drop for SharedHandleInner.  The operations work
   on st = [rcs, pool, result, events]. *)

\* largest number of Rc allocations made
MaxGroups == 2
\* largest strong count of an Rc allocation
MaxStrong == 2
\* largest weak count of an Rc allocation
MaxWeak == 2

NoneResult == [kind |-> "None", index |-> None]

\* SharedHandle::new: Rc::new(SharedHandleInner { pool, index })
SharedHandle_new(st, index) ==
    [st EXCEPT !.rcs = Append(@, [index |-> index, strong |-> 1,
                                  weak |-> 0, returned |-> 0]),
               !.result = Ok(Len(st.rcs) + 1)]

\* Clone for SharedHandle: Rc::clone
SharedHandle_clone(st, g) ==
    [st EXCEPT !.rcs[g].strong = @ + 1, !.result = Ok(g)]

\* SharedHandle::downgrade: Rc::downgrade
SharedHandle_downgrade(st, g) ==
    [st EXCEPT !.rcs[g].weak = @ + 1, !.result = Ok(g)]

\* Drop for SharedHandleInner
SharedHandleInner_drop(st, g) ==
    LET r == PoolInterface_return_to_pool(st.pool, st.rcs[g].index)
    IN [rcs |-> [st.rcs EXCEPT ![g].returned = @ + 1],
        pool |-> r.pool, result |-> r.result, events |-> r.events]

\* the drop of a SharedHandle that gives the slot back only once no weak
\* handle is left either
SharedHandle_drop_waits_for_weak(st, g) ==
    LET less == [st EXCEPT !.rcs[g].strong = @ - 1, !.result = Ok(g)]
    IN IF less.rcs[g].strong = 0 /\ less.rcs[g].weak = 0
       THEN SharedHandleInner_drop(less, g)
       ELSE less

\* the drop of a SharedHandle: the Rc drops its SharedHandleInner when the
\* strong count reaches 0
SharedHandle_drop(st, g) ==
    LET less == [st EXCEPT !.rcs[g].strong = @ - 1, !.result = Ok(g)]
    IN IF less.rcs[g].strong = 0
       THEN SharedHandleInner_drop(less, g)
       ELSE less

\* WeakHandle::upgrade that does not count the handle it returns
WeakHandle_upgrade_no_count(st, g) ==
    IF st.rcs[g].strong = 0
    THEN [st EXCEPT !.result = NoneResult]
    ELSE [st EXCEPT !.result = Ok(g)]

\* WeakHandle::upgrade that also succeeds on a strong count of 0
WeakHandle_upgrade_revives(st, g) ==
    [st EXCEPT !.rcs[g].strong = @ + 1, !.result = Ok(g)]

\* WeakHandle::upgrade: Weak::upgrade, mapped to a SharedHandle
WeakHandle_upgrade(st, g) ==
    IF st.rcs[g].strong = 0
    THEN [st EXCEPT !.result = NoneResult]
    ELSE [st EXCEPT !.rcs[g].strong = @ + 1, !.result = Ok(g)]

\* Clone for WeakHandle: Weak::clone
WeakHandle_clone(st, g) ==
    [st EXCEPT !.rcs[g].weak = @ + 1, !.result = Ok(g)]

\* the drop of a WeakHandle
WeakHandle_drop(st, g) ==
    [st EXCEPT !.rcs[g].weak = @ - 1, !.result = Ok(g)]

WeakHandle_strong_count(g) == rcs[g].strong
WeakHandle_weak_count(g) == rcs[g].weak

\* a FixedPool whose client wraps every allocation into a SharedHandle
SharedInit ==
    /\ debug_assertions \in BOOLEAN
    /\ \E config \in FixedConfigs :
          /\ config.capacity <= MaxInitCap
          /\ pool = FixedPool_with_config(config)
    /\ handles = EmptyBag
    /\ lastOp = [op |-> "new", arg |-> None, result |-> Ok(None),
                 events |-> NoEvents]
    /\ before = NoBefore
    /\ round = NewRound
    /\ rcs = <<>>
    /\ sharedHandles = EmptyBag
    /\ weakHandles = EmptyBag
    /\ TrackerIdle /\ ThreadsIdle /\ BuilderIdle /\ StatsIdle

SharedState == [rcs |-> rcs, pool |-> pool, result |-> Ok(None),
                events |-> NoEvents]

\* what a step on the shared handles leaves behind
SharedStep(op, arg, st) ==
    /\ rcs' = st.rcs
    /\ pool' = st.pool
    /\ lastOp' = [op |-> op, arg |-> arg, result |-> st.result,
                  events |-> st.events]
    /\ UNCHANGED <<debug_assertions, trackerVars, handles, before, round,
                   threadVars, builder, statVars>>

\* pool.allocate(value), SharedHandle::new(&pool, handle.index()) and
\* mem::forget(handle); the client allocates one and the same value
SharedAllocate(value) ==
    /\ Running
    /\ Len(rcs) < MaxGroups
    /\ LET r == FixedPool_allocate(pool, value)
           st == [SharedState EXCEPT !.pool = r.pool, !.result = r.result,
                                     !.events = r.events]
       IN IF r.result.kind = "Ok"
          THEN /\ SharedStep("shared_allocate", value,
                             SharedHandle_new(st, r.result.index))
               /\ sharedHandles' = AddHandle(sharedHandles, Len(rcs) + 1)
          ELSE /\ SharedStep("shared_allocate", value, st)
               /\ UNCHANGED sharedHandles
    /\ UNCHANGED weakHandles

SharedClone(g) ==
    /\ Running
    /\ BagIn(g, sharedHandles)
    /\ rcs[g].strong < MaxStrong
    /\ SharedStep("clone", g, SharedHandle_clone(SharedState, g))
    /\ sharedHandles' = AddHandle(sharedHandles, g)
    /\ UNCHANGED weakHandles

SharedDrop(g) ==
    /\ Running
    /\ BagIn(g, sharedHandles)
    /\ SharedStep("drop_shared", g, SharedHandle_drop(SharedState, g))
    /\ sharedHandles' = RemoveHandle(sharedHandles, g)
    /\ UNCHANGED weakHandles

SharedDowngrade(g) ==
    /\ Running
    /\ BagIn(g, sharedHandles)
    /\ rcs[g].weak < MaxWeak
    /\ SharedStep("downgrade", g, SharedHandle_downgrade(SharedState, g))
    /\ weakHandles' = AddHandle(weakHandles, g)
    /\ UNCHANGED sharedHandles

WeakClone(g) ==
    /\ Running
    /\ BagIn(g, weakHandles)
    /\ rcs[g].weak < MaxWeak
    /\ SharedStep("weak_clone", g, WeakHandle_clone(SharedState, g))
    /\ weakHandles' = AddHandle(weakHandles, g)
    /\ UNCHANGED sharedHandles

WeakDrop(g) ==
    /\ Running
    /\ BagIn(g, weakHandles)
    /\ SharedStep("drop_weak", g, WeakHandle_drop(SharedState, g))
    /\ weakHandles' = RemoveHandle(weakHandles, g)
    /\ UNCHANGED sharedHandles

\* weak.upgrade(), the SharedHandle kept when there is one
WeakUpgrade(g) ==
    /\ Running
    /\ BagIn(g, weakHandles)
    /\ rcs[g].strong < MaxStrong
    /\ LET st == WeakHandle_upgrade(SharedState, g)
       IN /\ SharedStep("upgrade", g, st)
          /\ sharedHandles' = IF st.result.kind = "Ok"
                              THEN AddHandle(sharedHandles, g)
                              ELSE sharedHandles
    /\ UNCHANGED weakHandles

\* weak.upgrade().map(|shared| shared.downgrade()): the upgrade, the
\* downgrade of its result and the drop of that temporary SharedHandle
WeakUpgradeDowngrade(g) ==
    /\ Running
    /\ BagIn(g, weakHandles)
    /\ rcs[g].weak < MaxWeak
    /\ LET up == WeakHandle_upgrade(SharedState, g)
           st == IF up.result.kind = "Ok"
                 THEN LET down == SharedHandle_downgrade(up, g)
                          dropped == SharedHandle_drop(down, g)
                      IN IF dropped.result.kind = "Panic" THEN dropped
                         ELSE [dropped EXCEPT !.result = Ok(g)]
                 ELSE up
       IN /\ SharedStep("upgrade_downgrade", g, st)
          /\ weakHandles' = IF up.result.kind = "Ok"
                            THEN AddHandle(weakHandles, g)
                            ELSE weakHandles
    /\ UNCHANGED sharedHandles

SharedNext ==
    \/ SharedAllocate(MaxVal)
    \/ \E g \in BagToSet(sharedHandles) : SharedClone(g)
    \/ \E g \in BagToSet(sharedHandles) : SharedDrop(g)
    \/ \E g \in BagToSet(sharedHandles) : SharedDowngrade(g)
    \/ \E g \in BagToSet(weakHandles) : WeakClone(g)
    \/ \E g \in BagToSet(weakHandles) : WeakDrop(g)
    \/ \E g \in BagToSet(weakHandles) : WeakUpgrade(g)
    \/ \E g \in BagToSet(weakHandles) : WeakUpgradeDowngrade(g)

SpecShared == SharedInit /\ [][SharedNext]_vars

Groups == 1..Len(rcs)

\* the group the step is about, where it is about one
StepGroup == lastOp'.arg

C21_Counts ==
    /\ lastOp'.op = "clone"
          => rcs'[StepGroup].strong = rcs[StepGroup].strong + 1
    /\ lastOp'.op = "drop_shared"
          => rcs'[StepGroup].strong = rcs[StepGroup].strong - 1

\* a step gives the slot of a group back exactly when it is the drop of
\* the last shared handle of the group, whatever the weak count is
C21_ReturnedAtLastDrop ==
    \A g \in Groups :
       /\ rcs'[g].returned \in {rcs[g].returned, rcs[g].returned + 1}
       /\ rcs'[g].returned = rcs[g].returned + 1
             <=> /\ lastOp'.op = "drop_shared"
                 /\ StepGroup = g
                 /\ rcs[g].strong = 1
       /\ rcs'[g].returned = rcs[g].returned + 1
             => /\ \E k \in 1..Len(lastOp'.events) :
                      /\ lastOp'.events[k].ev = "free"
                      /\ lastOp'.events[k].index = rcs[g].index
                /\ rcs[g].index \in SeqToSet(pool'.allocator.free_stack)
                /\ rcs[g].index \notin SeqToSet(pool.allocator.free_stack)

C21_ReturnedOnce ==
    \A g \in Groups :
       /\ rcs[g].returned = (IF rcs[g].strong = 0 THEN 1 ELSE 0)
       /\ rcs[g].strong = CopiesIn(g, sharedHandles)
       /\ rcs[g].weak = CopiesIn(g, weakHandles)

\* C21: clone raises the strong count of a shared handle group by 1 and
\* drop lowers it by 1; the slot is returned to the pool exactly once, at
\* the drop that takes the strong count from 1 to 0, however many weak
\* handles are still outstanding.
C21_SharedReleaseAtLastStrong ==
    /\ []C21_ReturnedOnce
    /\ [][C21_Counts /\ C21_ReturnedAtLastDrop]_vars

\* the last shared handle of a group was dropped while two weak handles of
\* the group were outstanding, and the slot was given back
C21_Witness ==
    /\ lastOp.op = "drop_shared"
    /\ rcs[lastOp.arg].strong = 0
    /\ rcs[lastOp.arg].weak = 2
    /\ rcs[lastOp.arg].returned = 1
    /\ lastOp.result.kind = "Ok"
    /\ Len(lastOp.events) = 3

C22_Upgrade ==
    lastOp'.op = "upgrade"
       => /\ lastOp'.result.kind = "Ok" <=> rcs[StepGroup].strong > 0
          /\ lastOp'.result.kind = "Ok"
                => /\ rcs'[StepGroup].strong = rcs[StepGroup].strong + 1
                   /\ lastOp'.result.index = StepGroup
                   /\ sharedHandles' = AddHandle(sharedHandles, StepGroup)
          /\ lastOp'.result.kind # "Ok"
                => /\ lastOp'.result = NoneResult
                   /\ rcs' = rcs
                   /\ sharedHandles' = sharedHandles

C22_StrongStaysZero ==
    \A g \in Groups : rcs[g].strong = 0 => rcs'[g].strong = 0

\* C22: WeakHandle.upgrade returns a shared handle if and only if the
\* strong count of the group is greater than 0 at the call; a successful
\* upgrade raises the strong count by exactly 1, and once the strong count
\* has reached 0 it stays 0, so that every later upgrade returns none.
C22_UpgradeIffStrong == [][C22_Upgrade /\ C22_StrongStaysZero]_vars

\* an upgrade has returned none on a group whose slot was given back
C22_Witness ==
    /\ lastOp.op = "upgrade"
    /\ lastOp.result = NoneResult
    /\ rcs[lastOp.arg].strong = 0
    /\ rcs[lastOp.arg].returned = 1
    /\ \E g \in Groups : rcs[g].strong = 2

\* C23: while at least one strong handle exists, upgrading a weak handle,
\* downgrading the result and dropping the temporary shared handle yields a
\* weak handle of the same group and slot, leaves the strong count as it
\* was and does not release the slot.
C23_UpgradeDowngradeIsIdentity ==
    [][lastOp'.op = "upgrade_downgrade" /\ rcs[StepGroup].strong > 0
          => /\ lastOp'.result = Ok(StepGroup)
             /\ weakHandles' = AddHandle(weakHandles, StepGroup)
             /\ sharedHandles' = sharedHandles
             /\ rcs'[StepGroup].strong = rcs[StepGroup].strong
             /\ rcs'[StepGroup].index = rcs[StepGroup].index
             /\ rcs'[StepGroup].returned = rcs[StepGroup].returned
             /\ rcs'[StepGroup].returned = 0
             /\ \A g \in Groups \ {StepGroup} : rcs'[g] = rcs[g]
             /\ lastOp'.events = NoEvents
             /\ pool' = pool]_vars

\* a weak handle of a group with one shared handle was upgraded and the
\* result downgraded
C23_Witness ==
    /\ lastOp.op = "upgrade_downgrade"
    /\ lastOp.result.kind = "Ok"
    /\ rcs[lastOp.arg].strong = 1
    /\ rcs[lastOp.arg].weak = 2
    /\ CopiesIn(lastOp.arg, weakHandles) = 2

---------------------------------------------------------------------------
(* ThreadSafePool: a GrowingPool behind a Mutex, shared by threads.  A
   thread takes the lock, runs allocate_internal, caches the pointer and
   leaves the lock; the drop of a handle takes the lock, runs the three
   steps of return_to_pool and leaves the lock.  Each of these is a step of
   its own. *)

\* number of threads that share the pool
NumThreads == 2
\* largest number of handles a thread holds at a time
MaxHeld == 1

Threads == 1..NumThreads

NoPtr == [chunk_idx |-> None, offset |-> None]
NoHandle == [index |-> None, cached_ptr |-> NoPtr, value |-> 0]

\* a thread that is in no call: held are its ThreadSafeHandles
IdleThread ==
    [pc |-> "idle", index |-> None, value |-> 0, held |-> {},
     dropping |-> NoHandle]

NoRelease == [thread |-> None, index |-> None]

\* the configurations of the pools the threads share
ThreadSafeConfigs ==
    {[capacity |-> c, max_capacity |-> None, growth_strategy |-> g] :
        c \in 1..MaxInitCap,
        g \in {[kind |-> "None"], [kind |-> "Linear", amount |-> 1]}}

ThreadSafePool_with_config(config) == GrowingPool_with_config(config)

\* self.inner.lock() that does not wait for the holder of the lock
Mutex_lock_no_wait(t) == TRUE

\* self.inner.lock(): the thread goes on once no thread holds the lock
Mutex_lock(t) == mutex = None

\* pool.get_mut(index) as *mut T: the address of the slot
GrowingPool_get_mut(p, index) ==
    GrowingPool_compute_chunk_location(p, index)

\* Deref for ThreadSafeHandle: the element behind cached_ptr
ThreadSafeHandle_deref(p, h) ==
    IF InStorage(p, h.cached_ptr)
    THEN p.storage[h.cached_ptr.chunk_idx + 1][h.cached_ptr.offset + 1]
    ELSE Uninit

ThreadSafeInit ==
    /\ debug_assertions \in BOOLEAN
    /\ \E config \in ThreadSafeConfigs :
          pool = ThreadSafePool_with_config(config)
    /\ handles = EmptyBag
    /\ lastOp = [op |-> "new", arg |-> None, result |-> Ok(None),
                 events |-> NoEvents]
    /\ before = NoBefore
    /\ round = NewRound
    /\ mutex = None
    /\ threads = [t \in Threads |-> IdleThread]
    /\ lastRelease = NoRelease
    /\ queue = <<>>
    /\ TrackerIdle /\ SharedIdle /\ BuilderIdle /\ StatsIdle

ThreadUnchanged ==
    UNCHANGED <<debug_assertions, trackerVars, handles, before, round,
                sharedVars, queue, builder, statVars>>

\* ThreadSafePool::allocate, up to the lock
ThreadSafePoolAllocateLock(t) ==
    /\ Running
    /\ threads[t].pc = "idle"
    /\ Cardinality(threads[t].held) < MaxHeld
    /\ Mutex_lock(t)
    /\ mutex' = t
    /\ threads' = [threads EXCEPT ![t].pc = "allocate_internal",
                                  ![t].value = t]
    /\ lastOp' = [op |-> "lock", arg |-> t, result |-> Ok(None),
                  events |-> NoEvents]
    /\ UNCHANGED pool
    /\ UNCHANGED lastRelease
    /\ ThreadUnchanged

\* ThreadSafePoolAllocateInternal keeping the lock when allocate_internal
\* returns an error
ThreadSafePoolAllocateInternal_keeps_lock_on_error(t) ==
    /\ Running
    /\ threads[t].pc = "allocate_internal"
    /\ GrowingPool_available(pool) = 0 => GrownCapacity(pool) <= CapBound
    /\ \E r \in {GrowingPool_allocate(pool, threads[t].value)} :
       LET ok == r.result.kind = "Ok"
       IN /\ pool' = r.pool
          /\ threads' = [threads EXCEPT
                           ![t].pc = IF ok THEN "cache_ptr" ELSE "idle",
                           ![t].index = IF ok THEN r.result.index ELSE None]
          /\ mutex' = mutex
          /\ lastOp' = [op |-> "allocate", arg |-> t, result |-> r.result,
                        events |-> r.events]
    /\ UNCHANGED lastRelease
    /\ ThreadUnchanged

\* pool.allocate_internal(value)?: an error leaves allocate, and the lock
ThreadSafePoolAllocateInternal(t) ==
    /\ Running
    /\ threads[t].pc = "allocate_internal"
    /\ GrowingPool_available(pool) = 0 => GrownCapacity(pool) <= CapBound
    /\ \E r \in {GrowingPool_allocate(pool, threads[t].value)} :
       LET ok == r.result.kind = "Ok"
       IN /\ pool' = r.pool
          /\ threads' = [threads EXCEPT
                           ![t].pc = IF ok THEN "cache_ptr" ELSE "idle",
                           ![t].index = IF ok THEN r.result.index ELSE None]
          /\ mutex' = IF ok \/ r.result.kind = "Panic" THEN mutex ELSE None
          /\ lastOp' = [op |-> "allocate", arg |-> t, result |-> r.result,
                        events |-> r.events]
    /\ UNCHANGED lastRelease
    /\ ThreadUnchanged

\* the rest of ThreadSafePool::allocate: the pointer is cached, the handle
\* returned and the lock left
ThreadSafePoolAllocateReturn(t) ==
    /\ Running
    /\ threads[t].pc = "cache_ptr"
    /\ LET h == [index |-> threads[t].index,
                 cached_ptr |-> GrowingPool_get_mut(pool, threads[t].index),
                 value |-> threads[t].value]
       IN threads' = [threads EXCEPT ![t].pc = "idle", ![t].index = None,
                                     ![t].held = @ \cup {h}]
    /\ mutex' = None
    /\ lastOp' = [op |-> "return", arg |-> t,
                  result |-> Ok(threads[t].index), events |-> NoEvents]
    /\ UNCHANGED pool
    /\ UNCHANGED lastRelease
    /\ ThreadUnchanged

\* Drop for ThreadSafeHandle, up to the lock
ThreadSafeHandleDropLock(t, h) ==
    /\ Running
    /\ threads[t].pc = "idle"
    /\ h \in threads[t].held
    /\ Mutex_lock(t)
    /\ mutex' = t
    /\ threads' = [threads EXCEPT ![t].pc = "on_release",
                                  ![t].held = @ \ {h},
                                  ![t].dropping = h]
    /\ lastOp' = [op |-> "drop_lock", arg |-> t, result |-> Ok(h.index),
                  events |-> NoEvents]
    /\ UNCHANGED pool
    /\ UNCHANGED lastRelease
    /\ ThreadUnchanged

\* what a step of pool.return_to_pool(self.index) leaves behind
ReturnStep(t, st, pc) ==
    /\ pool' = st.pool
    /\ lastOp' = [op |-> threads[t].pc, arg |-> t, result |-> st.result,
                  events |-> st.events]
    /\ threads' = [threads EXCEPT
                     ![t].pc = pc,
                     ![t].dropping = IF pc = "idle" THEN NoHandle ELSE @]
    /\ lastRelease' = IF pc = "idle"
                      THEN [thread |-> t, index |-> threads[t].dropping.index]
                      ELSE lastRelease
    /\ ThreadUnchanged

ReturnState(t) ==
    [pool |-> pool, result |-> Ok(threads[t].dropping.index),
     events |-> NoEvents]

\* return_to_pool: (*value_ptr).on_release()
ThreadSafeHandleOnRelease(t) ==
    /\ Running
    /\ threads[t].pc = "on_release"
    /\ LET index == threads[t].dropping.index
           loc == GrowingPool_compute_chunk_location(pool, index)
       IN /\ InStorage(pool, loc)
          /\ ReturnStep(t, GrowingPool_on_release(ReturnState(t), index,
                                                  loc),
                        "drop_in_place")
    /\ UNCHANGED mutex

\* return_to_pool: ptr::drop_in_place(value_ptr)
ThreadSafeHandleDropInPlace(t) ==
    /\ Running
    /\ threads[t].pc = "drop_in_place"
    /\ LET index == threads[t].dropping.index
           loc == GrowingPool_compute_chunk_location(pool, index)
       IN ReturnStep(t, GrowingPool_drop_in_place(ReturnState(t), index,
                                                  loc),
                     "free")
    /\ UNCHANGED mutex

\* return_to_pool: allocator.free(index); the end of drop leaves the lock
ThreadSafeHandleFree(t) ==
    /\ Running
    /\ threads[t].pc = "free"
    /\ LET st == GrowingPool_free(ReturnState(t), threads[t].dropping.index)
       IN /\ ReturnStep(t, st, "idle")
          /\ mutex' = IF st.result.kind = "Panic" THEN mutex ELSE None

ThreadSafeNext ==
    \/ \E t \in Threads : ThreadSafePoolAllocateLock(t)
    \/ \E t \in Threads : ThreadSafePoolAllocateInternal(t)
    \/ \E t \in Threads : ThreadSafePoolAllocateReturn(t)
    \/ \E t \in Threads : \E h \in threads[t].held :
          ThreadSafeHandleDropLock(t, h)
    \/ \E t \in Threads : ThreadSafeHandleOnRelease(t)
    \/ \E t \in Threads : ThreadSafeHandleDropInPlace(t)
    \/ \E t \in Threads : ThreadSafeHandleFree(t)

SpecThreadSafe == ThreadSafeInit /\ [][ThreadSafeNext]_vars

\* the handles that are live: those held and those whose drop has not yet
\* freed the index
LiveThreadSafeHandles(t) ==
    threads[t].held \cup (IF threads[t].dropping = NoHandle THEN {}
                          ELSE {threads[t].dropping})

\* the indices a thread has claimed and not yet freed
LiveThreadIndices(t) ==
    {h.index : h \in LiveThreadSafeHandles(t)}
       \cup (IF threads[t].index = None THEN {} ELSE {threads[t].index})

\* C24: on the mutex-guarded pool, under every interleaving of allocate and
\* handle-drop calls of several threads, also with growth, no two handles
\* that are live at the same time hold the same index: a live index is
\* claimed in the tracker, and the slot behind the cached pointer of a
\* handle is the slot of its index and keeps what the handle's thread
\* stored until the thread drops the handle.
C24_LiveHandlesExclusive ==
    /\ \A t, u \in Threads :
          t # u => LiveThreadIndices(t) \cap LiveThreadIndices(u) = {}
    /\ \A t \in Threads :
          /\ Cardinality(LiveThreadIndices(t))
                = Cardinality(LiveThreadSafeHandles(t))
                    + (IF threads[t].index = None THEN 0 ELSE 1)
          /\ LiveThreadIndices(t) \cap FreeSet(pool.allocator) = {}
          /\ \A h \in LiveThreadSafeHandles(t) :
                /\ h.cached_ptr
                      = GrowingPool_compute_chunk_location(pool, h.index)
                /\ InStorage(pool, h.cached_ptr)
          /\ \A h \in threads[t].held :
                ThreadSafeHandle_deref(pool, h) = h.value

\* both threads hold a handle, one of them on a slot of a chunk the pool
\* grew by, and the thread that released an index last holds another now
C24_Witness ==
    /\ \A t \in Threads : Cardinality(threads[t].held) = 1
    /\ \E t \in Threads : \E h \in threads[t].held :
          h.cached_ptr.chunk_idx = 1
    /\ lastRelease.thread \in Threads
    /\ \E h \in threads[lastRelease.thread].held :
          h.index # lastRelease.index
    /\ Len(pool.storage) = 2

\* every thread has left its calls and dropped its handles
AllThreadsFinished ==
    /\ mutex = None
    /\ \A t \in Threads :
          threads[t].pc = "idle" /\ LiveThreadIndices(t) = {}

\* C25: on the mutex-guarded pool, once all threads have finished their
\* allocate-hold-drop iterations and every handle is dropped,
\* available() = capacity(), for every interleaving of the threads.
C25_AllReturnedAfterThreads ==
    AllThreadsFinished
       => GrowingPool_available(pool) = GrowingPool_capacity(pool)

\* the threads have held two handles at a time, the pool has grown for the
\* second, and the last handle, on the slot of the second chunk, has just
\* been freed
C25_Witness ==
    /\ AllThreadsFinished
    /\ lastRelease.index >= pool.config.capacity
    /\ Len(pool.storage) = 2
    /\ lastOp.op = "free"
    /\ GrowingPool_available(pool) = 2

\* a thread is inside allocate or inside the drop of a handle, past the lock
InCritical(t) == threads[t].pc # "idle"

C26_Exclusion == \A t \in Threads : InCritical(t) => mutex = t

\* the steps of a release follow each other with no step of another thread
\* in between, and so do the lock and the claim of an allocate
C26_ReleaseInsideMutex ==
    /\ lastOp'.op = "on_release"
          => lastOp.op = "drop_lock" /\ lastOp.arg = lastOp'.arg
    /\ lastOp'.op = "drop_in_place"
          => /\ lastOp.op = "on_release" /\ lastOp.arg = lastOp'.arg
             /\ lastOp.events[1].index = lastOp'.events[1].index
    /\ lastOp'.op = "free"
          => /\ lastOp.op = "drop_in_place" /\ lastOp.arg = lastOp'.arg
             /\ lastOp'.result.kind = "Ok"
             /\ lastOp.events[1].index = lastOp'.result.index
    /\ lastOp'.op = "allocate"
          => lastOp.op = "lock" /\ lastOp.arg = lastOp'.arg

\* at the claim of an index no other thread is inside a release, no thread
\* holds the index, and the element a former handle had there is destroyed
C26_ClaimAfterRelease ==
    lastOp'.op = "allocate" /\ lastOp'.result.kind = "Ok"
       => LET t == lastOp'.arg
              index == lastOp'.result.index
          IN /\ mutex = t
             /\ \A u \in Threads \ {t} :
                   /\ ~InCritical(u)
                   /\ threads[u].dropping = NoHandle
                   /\ index \notin LiveThreadIndices(u)
             /\ index \notin LiveThreadIndices(t)
             /\ index < pool.capacity
                   => /\ index \in FreeSet(pool.allocator)
                      /\ GrowingPool_get(pool, index) = Uninit
             /\ lastOp'.events[1] = [ev |-> "claim", index |-> index,
                                     init |-> FALSE]

\* C26: on the mutex-guarded pool, when the allocate of a thread obtains an
\* index that a handle of another thread held before, the whole release of
\* that handle (on_release, destruction of the element, release in the
\* tracker) was completed inside the mutex before the allocate claims the
\* index and writes the new value.
C26_ReleaseBeforeClaim ==
    /\ []C26_Exclusion
    /\ [][C26_ReleaseInsideMutex /\ C26_ClaimAfterRelease]_vars

\* a thread has claimed the index the other thread released last
C26_Witness ==
    /\ lastOp.op = "allocate"
    /\ lastOp.result.kind = "Ok"
    /\ lastRelease.index = lastOp.result.index
    /\ lastRelease.thread \in Threads \ {lastOp.arg}
    /\ lastOp.events[3] = [ev |-> "write", index |-> lastOp.result.index,
                           init |-> FALSE]

---------------------------------------------------------------------------
(* LockFreePool: a SegQueue of boxed elements shared by threads.  A Box is
   the number of its heap allocation; SegQueue::push and SegQueue::pop each
   take effect in one step. *)

\* largest capacity of a LockFreePool
MaxLockFree == 3

\* SegQueue::pop
SegQueue_pop(q) ==
    IF q = <<>>
    THEN [queue |-> q, result |-> NoneResult]
    ELSE [queue |-> Tail(q), result |-> Ok(Head(q))]

\* SegQueue::push
SegQueue_push(q, object) == Append(q, object)

\* with_initializer: the loop pushes capacity boxes, each a new allocation
LockFreePool_with_initializer(capacity) == [k \in 1..capacity |-> k]

\* try_allocate that hands out the element at the head and leaves it queued
LockFreePool_try_allocate_peeks(q) ==
    IF q = <<>>
    THEN [queue |-> q, result |-> NoneResult]
    ELSE [queue |-> q, result |-> Ok(Head(q))]

LockFreePool_try_allocate(q) == SegQueue_pop(q)

LockFreePool_return_object(q, object) == SegQueue_push(q, object)

LockFreeInit ==
    /\ debug_assertions \in BOOLEAN
    /\ \E capacity \in 0..MaxLockFree :
          /\ pool = [kind |-> "LockFreePool", capacity |-> capacity]
          /\ queue = LockFreePool_with_initializer(capacity)
    /\ handles = EmptyBag
    /\ lastOp = [op |-> "new", arg |-> None, result |-> Ok(None),
                 events |-> NoEvents]
    /\ before = NoBefore
    /\ round = NewRound
    /\ mutex = None
    /\ threads = [t \in Threads |-> IdleThread]
    /\ lastRelease = NoRelease
    /\ TrackerIdle /\ SharedIdle /\ BuilderIdle /\ StatsIdle

LockFreeUnchanged ==
    UNCHANGED <<debug_assertions, trackerVars, pool, handles, before, round,
                sharedVars, mutex, lastRelease, builder, statVars>>

\* pool.try_allocate() by thread t, which keeps the box it gets
LockFreePoolTryAllocate(t) ==
    /\ LET r == LockFreePool_try_allocate(queue)
       IN /\ queue' = r.queue
          /\ threads' = [threads EXCEPT
                           ![t].held = IF r.result.kind = "Ok"
                                       THEN @ \cup {r.result.index}
                                       ELSE @]
          /\ lastOp' = [op |-> "try_allocate", arg |-> t,
                        result |-> r.result, events |-> NoEvents]
    /\ LockFreeUnchanged

\* pool.return_object(object) by thread t, on a box it took
LockFreePoolReturnObject(t, object) ==
    /\ object \in threads[t].held
    /\ queue' = LockFreePool_return_object(queue, object)
    /\ threads' = [threads EXCEPT ![t].held = @ \ {object}]
    /\ lastOp' = [op |-> "return_object", arg |-> t, result |-> Ok(object),
                  events |-> NoEvents]
    /\ LockFreeUnchanged

LockFreeNext ==
    \/ \E t \in Threads : LockFreePoolTryAllocate(t)
    \/ \E t \in Threads : \E object \in threads[t].held :
          LockFreePoolReturnObject(t, object)

SpecLockFree == LockFreeInit /\ [][LockFreeNext]_vars

\* the boxes the threads hold
HeldBoxes == UNION {threads[t].held : t \in Threads}

C27_Conservation ==
    /\ \A t, u \in Threads :
          t # u => threads[t].held \cap threads[u].held = {}
    /\ Cardinality(SeqToSet(queue)) = Len(queue)
    /\ SeqToSet(queue) \cap HeldBoxes = {}
    /\ SeqToSet(queue) \cup HeldBoxes = 1..pool.capacity
    /\ Len(queue) + Cardinality(HeldBoxes) = pool.capacity

C27_TryAllocate ==
    lastOp'.op = "try_allocate"
       => /\ lastOp'.result = NoneResult => queue = <<>>
          /\ lastOp'.result.kind = "Ok"
                => /\ lastOp'.result.index = Head(queue)
                   /\ lastOp'.result.index \in threads'[lastOp'.arg].held
                   /\ lastOp'.result.index \notin SeqToSet(queue')

\* C27: on a lock-free pool pre-populated with n elements, under every
\* interleaving of try_allocate and return_object by threads that return
\* only elements they took, each element is held by at most one thread at
\* a time, the elements in the queue and the elements held always total n,
\* and try_allocate returns none only when the queue is empty.
C27_ElementsConserved == []C27_Conservation /\ [][C27_TryAllocate]_vars

\* a try_allocate has returned none while the threads hold all three
\* elements between them, one thread the first and the last
C27_Witness ==
    /\ lastOp.op = "try_allocate"
    /\ lastOp.result = NoneResult
    /\ queue = <<>>
    /\ \A t \in Threads : threads[t].held # {}
    /\ \E t \in Threads : {1, pool.capacity} \subseteq threads[t].held
    /\ pool.capacity = 3

---------------------------------------------------------------------------
(* PoolConfigBuilder: the setters, build and the pool made of the result *)

\* largest alignment given to the builder
MaxAlignment == 8
\* mem::align_of::<T>() of the element type, i32
AlignOfT == 4

InvalidConfiguration(message) ==
    [kind |-> "InvalidConfiguration", message |-> message]
InvalidAlignment(alignment) ==
    [kind |-> "InvalidAlignment", alignment |-> alignment]

\* a & b on usize
RECURSIVE BitAnd(_, _)
BitAnd(a, b) ==
    IF a = 0 \/ b = 0 THEN 0
    ELSE (a % 2) * (b % 2) + 2 * BitAnd(a \div 2, b \div 2)

is_power_of_two(n) == n > 0 /\ BitAnd(n, n - 1) = 0

validate_alignment(alignment) ==
    IF is_power_of_two(alignment) THEN Ok(None)
    ELSE InvalidAlignment(alignment)

PoolConfigBuilder_new ==
    [kind |-> "PoolConfigBuilder", capacity |-> None, max_capacity |-> None,
     growth_strategy |-> [kind |-> "None"], alignment |-> AlignOfT]

PoolConfigBuilder_capacity(b, capacity) == [b EXCEPT !.capacity = capacity]
PoolConfigBuilder_max_capacity(b, max_capacity) ==
    [b EXCEPT !.max_capacity = max_capacity]
PoolConfigBuilder_growth_strategy(b, strategy) ==
    [b EXCEPT !.growth_strategy = strategy]
PoolConfigBuilder_alignment(b, alignment) ==
    [b EXCEPT !.alignment = alignment]

\* build that tests max_capacity against capacity + 1
PoolConfigBuilder_build_max_above(b) ==
    IF b.capacity = None
    THEN InvalidConfiguration("capacity must be specified")
    ELSE IF b.capacity = 0
    THEN InvalidConfiguration("capacity must be at least 1")
    ELSE IF b.max_capacity # None /\ b.max_capacity <= b.capacity
    THEN InvalidConfiguration("max_capacity must be >= capacity")
    ELSE IF validate_alignment(b.alignment).kind # "Ok"
    THEN validate_alignment(b.alignment)
    ELSE Ok([capacity |-> b.capacity, max_capacity |-> b.max_capacity,
             growth_strategy |-> b.growth_strategy,
             alignment |-> b.alignment])

\* build: Ok(config) or the error
PoolConfigBuilder_build(b) ==
    IF b.capacity = None
    THEN InvalidConfiguration("capacity must be specified")
    ELSE IF b.capacity = 0
    THEN InvalidConfiguration("capacity must be at least 1")
    ELSE IF b.max_capacity # None /\ b.max_capacity < b.capacity
    THEN InvalidConfiguration("max_capacity must be >= capacity")
    ELSE IF validate_alignment(b.alignment).kind # "Ok"
    THEN validate_alignment(b.alignment)
    ELSE Ok([capacity |-> b.capacity, max_capacity |-> b.max_capacity,
             growth_strategy |-> b.growth_strategy,
             alignment |-> b.alignment])

\* FixedPool::new(capacity): Ok(pool) or the error of build
FixedPool_new(capacity) ==
    LET config == PoolConfigBuilder_build(
                     PoolConfigBuilder_capacity(PoolConfigBuilder_new,
                                                capacity))
    IN IF config.kind = "Ok"
       THEN Ok(FixedPool_with_config(config.index))
       ELSE config

\* a builder as PoolConfig::builder() returns it, and no pool
BuilderInit ==
    /\ debug_assertions \in BOOLEAN
    /\ builder = PoolConfigBuilder_new
    /\ pool = [kind |-> "none"]
    /\ handles = EmptyBag
    /\ lastOp = [op |-> "builder", arg |-> None, result |-> Ok(None),
                 events |-> NoEvents]
    /\ before = NoBefore
    /\ round = NewRound
    /\ TrackerIdle /\ SharedIdle /\ ThreadsIdle /\ StatsIdle

BuilderUnchanged ==
    UNCHANGED <<debug_assertions, trackerVars, handles, before, round,
                sharedVars, threadVars, statVars>>

Building == builder.kind = "PoolConfigBuilder"

\* a setter of the builder
BuilderSet(b) ==
    /\ Building
    /\ builder' = b
    /\ lastOp' = [op |-> "set", arg |-> None, result |-> Ok(None),
                  events |-> NoEvents]
    /\ UNCHANGED pool
    /\ BuilderUnchanged

\* builder.build(), and GrowingPool::with_config on the configuration
BuilderBuild ==
    /\ Building
    /\ LET r == PoolConfigBuilder_build(builder)
       IN /\ pool' = IF r.kind = "Ok" THEN GrowingPool_with_config(r.index)
                     ELSE pool
          /\ lastOp' = [op |-> "build", arg |-> builder, result |-> r,
                        events |-> NoEvents]
    /\ builder' = [kind |-> "none"]
    /\ BuilderUnchanged

\* FixedPool::new(capacity)
FixedPoolNew(capacity) ==
    /\ builder = PoolConfigBuilder_new
    /\ LET r == FixedPool_new(capacity)
       IN /\ pool' = IF r.kind = "Ok" THEN r.index ELSE pool
          /\ lastOp' = [op |-> "FixedPool::new", arg |-> capacity,
                        result |-> r, events |-> NoEvents]
    /\ builder' = [kind |-> "none"]
    /\ BuilderUnchanged

BuilderNext ==
    \/ \E capacity \in 0..MaxInitCap :
          BuilderSet(PoolConfigBuilder_capacity(builder, capacity))
    \/ \E max_capacity \in {None} \cup 0..CapBound :
          BuilderSet(PoolConfigBuilder_max_capacity(builder, max_capacity))
    \/ \E strategy \in {[kind |-> "None"],
                        [kind |-> "Linear", amount |-> 1]} :
          BuilderSet(PoolConfigBuilder_growth_strategy(builder, strategy))
    \/ \E alignment \in 0..MaxAlignment :
          BuilderSet(PoolConfigBuilder_alignment(builder, alignment))
    \/ BuilderBuild
    \/ \E capacity \in 0..MaxInitCap : FixedPoolNew(capacity)

SpecBuilder == BuilderInit /\ [][BuilderNext]_vars

\* the builders the setters can make
Builders ==
    [kind : {"PoolConfigBuilder"}, capacity : {None} \cup 0..MaxInitCap,
     max_capacity : {None} \cup 0..CapBound,
     growth_strategy : {[kind |-> "None"]}, alignment : 0..MaxAlignment]

IsPowerOfTwo(n) == \E k \in 0..n : 2 ^ k = n

\* the validations of build a builder fails
Violations(b) ==
    (IF b.capacity = None \/ b.capacity = 0 THEN {"capacity"} ELSE {})
      \cup (IF b.capacity # None /\ b.max_capacity # None
               /\ b.max_capacity < b.capacity
            THEN {"max_capacity"} ELSE {})
      \cup (IF ~IsPowerOfTwo(b.alignment) THEN {"alignment"} ELSE {})

C28_BuildIffValid ==
    /\ lastOp.op = "build"
          => /\ lastOp.result.kind = "Ok" <=> Violations(lastOp.arg) = {}
             /\ lastOp.result.kind = "Ok"
                   => /\ lastOp.result.index.capacity = lastOp.arg.capacity
                      /\ lastOp.result.index.max_capacity
                            = lastOp.arg.max_capacity
                      /\ lastOp.result.index.growth_strategy
                            = lastOp.arg.growth_strategy
                      /\ lastOp.result.index.alignment = lastOp.arg.alignment
                      /\ pool.kind = "GrowingPool"
                      /\ pool.capacity = lastOp.arg.capacity
             /\ lastOp.result.kind # "Ok" => pool = [kind |-> "none"]
    /\ lastOp.op = "FixedPool::new"
          => /\ lastOp.result.kind = "Ok" <=> lastOp.arg >= 1
             /\ lastOp.result.kind = "Ok"
                   => pool.kind = "FixedPool" /\ pool.capacity = lastOp.arg
             /\ lastOp.result.kind # "Ok" => pool = [kind |-> "none"]
    /\ lastOp.op \in {"builder", "set"} => pool = [kind |-> "none"]

\* a failed build names the violation by an error kind that no build
\* failing another validation reports
C28_OwnKindPerViolation ==
    lastOp.op = "build" /\ lastOp.result.kind # "Ok"
       => \A b \in Builders :
             /\ Cardinality(Violations(b)) = 1
             /\ Cardinality(Violations(lastOp.arg)) = 1
             /\ Violations(b) # Violations(lastOp.arg)
             => PoolConfigBuilder_build(b).kind # lastOp.result.kind

\* C28 as claimed: build succeeds if and only if capacity was set and is
\* >= 1, max_capacity (when provided) is >= capacity and alignment is a
\* power of two; each of the three violations is reported with its own
\* distinct error kind, and a failed build (or FixedPool::new(0)) creates
\* no pool.
C28_BuildValidatesWithDistinctKinds ==
    C28_BuildIffValid /\ C28_OwnKindPerViolation

\* the error a failed build reports for a single violation
C28_ErrorOfViolation ==
    lastOp.op = "build" /\ lastOp.result.kind # "Ok"
       => /\ Violations(lastOp.arg) = {"capacity"}
                => lastOp.result
                      \in {InvalidConfiguration("capacity must be specified"),
                           InvalidConfiguration(
                              "capacity must be at least 1")}
          /\ Violations(lastOp.arg) = {"max_capacity"}
                => lastOp.result
                      = InvalidConfiguration(
                           "max_capacity must be >= capacity")
          /\ Violations(lastOp.arg) = {"alignment"}
                => lastOp.result = InvalidAlignment(lastOp.arg.alignment)
          /\ \A b \in Builders :
                /\ Cardinality(Violations(b)) = 1
                /\ Cardinality(Violations(lastOp.arg)) = 1
                /\ Violations(b) # Violations(lastOp.arg)
                => PoolConfigBuilder_build(b) # lastOp.result

\* C28, amended: build succeeds if and only if capacity was set and is
\* >= 1, max_capacity (when provided) is >= capacity and alignment is a
\* power of two; a capacity violation and a max_capacity violation are both
\* reported with the error kind InvalidConfiguration, told apart by their
\* messages, and an alignment violation with the kind InvalidAlignment; a
\* failed build (or FixedPool::new(0)) creates no pool.
C28_BuildValidates == C28_BuildIffValid /\ C28_ErrorOfViolation

\* a build has failed on max_capacity < capacity alone, with the error kind
\* a build without capacity reports too
C28_Witness ==
    /\ lastOp.op = "build"
    /\ Violations(lastOp.arg) = {"max_capacity"}
    /\ lastOp.result.kind = "InvalidConfiguration"
    /\ PoolConfigBuilder_build(PoolConfigBuilder_new).kind
          = "InvalidConfiguration"
    /\ pool = [kind |-> "none"]

---------------------------------------------------------------------------
(* The hooks of an allocate, on the pools of Spec *)

\* the positions of the events ev of the last operation
EventsOf(ev) == {k \in 1..Len(lastOp.events) : lastOp.events[k].ev = ev}

---------------------------------------------------------------------------
(* Growth cycles: a GrowingPool whose client allocates and keeps every
   handle, so that the pool is kept full and grows whenever it can.  The
   factors of Exponential are num / den with den a power of two: for these
   and the capacities of the model the f64 product current_capacity * factor
   is exact. *)

\* a pool without max_capacity is not grown beyond this capacity
GrowthCapBound == 16

GrowthFactors ==
    {[num |-> 1, den |-> 2], [num |-> 1, den |-> 1], [num |-> 5, den |-> 4],
     [num |-> 3, den |-> 2], [num |-> 2, den |-> 1], [num |-> 5, den |-> 2],
     [num |-> 3, den |-> 1]}

GrowthCycleConfigs ==
    {[capacity |-> c, max_capacity |-> m, growth_strategy |-> g] :
        c \in 1..(MaxInitCap + 1),
        m \in {None, 2 * CapBound - 1},
        g \in {[kind |-> "Exponential", num |-> f.num, den |-> f.den] :
                  f \in GrowthFactors}
              \cup {[kind |-> "Linear", amount |-> n] : n \in 0..MaxAmount}}

GrowthCycleInit ==
    /\ debug_assertions \in BOOLEAN
    /\ \E config \in GrowthCycleConfigs :
          pool = GrowingPool_with_config(config)
    /\ handles = EmptyBag
    /\ lastOp = [op |-> "new", arg |-> None, result |-> Ok(None),
                 events |-> NoEvents]
    /\ before = NoBefore
    /\ round = NewRound
    /\ TrackerIdle
    /\ SharedIdle /\ ThreadsIdle /\ BuilderIdle /\ StatsIdle

\* pool.allocate(value).unwrap(), the handle pushed on the Vec the client
\* keeps
GrowthCycleAllocate(value) ==
    /\ lastOp.result.kind = "Ok"
    /\ GrowingPool_available(pool) = 0 /\ pool.config.max_capacity = None
          => GrownCapacity(pool) <= GrowthCapBound
    /\ LET r == GrowingPool_allocate(pool, value)
       IN /\ pool' = r.pool
          /\ handles' = IF r.result.kind = "Ok"
                        THEN AddHandle(handles,
                                OwnedHandle_new(r.result.index, value))
                        ELSE handles
          /\ lastOp' = [op |-> "allocate", arg |-> value,
                        result |-> r.result, events |-> r.events]
    /\ UNCHANGED <<debug_assertions, trackerVars, before, round, extVars>>

GrowthCycleNext == GrowthCycleAllocate(MaxVal)

SpecGrowthCycles == GrowthCycleInit /\ [][GrowthCycleNext]_vars

\* floor(n / d) for n >= 0, d > 0
Floor(n, d) == CHOOSE k \in 0..n : k * d <= n /\ n < (k + 1) * d

\* the growth step the strategy is meant to give at capacity c
GrowthStepAt(strategy, c) ==
    CASE strategy.kind = "Linear" -> strategy.amount
      [] strategy.kind = "Exponential" ->
            LET step == Floor(c * strategy.num, strategy.den) - c
            IN IF step < 1 THEN 1 ELSE step

C30_ComputeGrowth ==
    GrowthStrategy_compute_growth(pool.config.growth_strategy, pool.capacity)
       = GrowthStepAt(pool.config.growth_strategy, pool.capacity)

\* a pool grows by the step of its strategy; with the factor 2 it doubles
C30_GrowthStep ==
    pool'.capacity # pool.capacity
       => /\ lastOp'.op = "allocate"
          /\ GrowingPool_available(pool) = 0
          /\ pool'.capacity - pool.capacity
                = GrowthStepAt(pool.config.growth_strategy, pool.capacity)
          /\ pool.config.growth_strategy
                = [kind |-> "Exponential", num |-> 2, den |-> 1]
                => pool'.capacity = 2 * pool.capacity

\* the capacities of a pool with the factor 2 are c, 2c, 4c, ...
C30_Doubled ==
    pool.config.growth_strategy
          = [kind |-> "Exponential", num |-> 2, den |-> 1]
       => /\ \E k \in 0..pool.capacity :
                pool.capacity = pool.config.capacity * 2 ^ k
          /\ \A j \in 1..Len(pool.chunk_boundaries) :
                pool.chunk_boundaries[j] = pool.config.capacity * 2 ^ (j - 1)

\* C30: for Exponential growth with factor f the growth step at capacity c
\* is floor(c * f) - c but never less than 1, and for Linear(n) it is
\* always n; a pool with factor 2 that is kept full passes through the
\* capacities c, 2c, 4c, ... with no value in between.
C30_GrowthSteps ==
    /\ [](C30_ComputeGrowth /\ C30_Doubled)
    /\ [][C30_GrowthStep]_vars

\* a pool of capacity 2 with the factor 2 and no max_capacity, kept full,
\* has grown three times, to 4, 8 and 16
C30_Witness ==
    /\ pool.config.max_capacity = None
    /\ pool.config.growth_strategy
          = [kind |-> "Exponential", num |-> 2, den |-> 1]
    /\ pool.config.capacity = 2
    /\ pool.chunk_boundaries = <<2, 4, 8, 16>>
    /\ pool.capacity = 16
    /\ GrowingPool_available(pool) = 0
    /\ lastOp.op = "allocate"
    /\ lastOp.result.kind = "Ok"

---------------------------------------------------------------------------
(* Claims of the slot trackers *)

\* C31: for each tracker, a claim returns none exactly when the tracker is
\* full (available() = 0); when an index is free, the claim returns an index
\* that was free and is below capacity, and marks it live: the index is no
\* longer held free and one slot fewer is available.
C31_ClaimNoneIffFull ==
    [][trackerOp'.op = "claim" /\ trackerOp.panic = NoPanic =>
          LET ret == trackerOp'.ret
          IN /\ trackerOp'.panic = NoPanic
             /\ (ret = None) <=> Allocator_is_full(tracker)
             /\ (ret = None) <=> (FreeSet(tracker) = {})
             /\ ret = None => tracker' = tracker
             /\ ret # None =>
                   /\ ret \in FreeSet(tracker)
                   /\ ret < Allocator_capacity(tracker)
                   /\ FreeSet(tracker') = FreeSet(tracker) \ {ret}
                   /\ Allocator_available(tracker')
                        = Allocator_available(tracker) - 1
                   /\ Allocator_capacity(tracker')
                        = Allocator_capacity(tracker)]_vars

\* a claim on a full tracker of more than one word, extended before and with
\* a released index claimed again, has returned none
C31_Witness ==
    /\ trackerOp.op = "claim"
    /\ trackerOp.ret = None
    /\ trackerOp.panic = NoPanic
    /\ tracker.capacity > BITS_PER_WORD
    /\ claimed = 0..(tracker.capacity - 1)
    /\ claimed # pinned


---------------------------------------------------------------------------
(* is_full and can_grow of the growing pool *)

\* C32: for a growing pool, is_full() is true exactly when no slot is free
\* and the pool cannot grow: an allocate called while is_full() is false
\* succeeds and an allocate called while is_full() is true fails.
C32_IsFullIffAllocateFails ==
    [][IsGrowing /\ lastOp'.op = "allocate" =>
          /\ GrowingPool_is_full(pool)
                <=> /\ GrowingPool_available(pool) = 0
                    /\ ~GrowingPool_can_grow(pool)
          /\ GrowingPool_is_full(pool) <=> lastOp'.result.kind # "Ok"]_vars


---------------------------------------------------------------------------
(* The two chunk lookups and the chunk boundaries of the growing pool *)

\* C33: in every state of a growing pool and for every index below
\* capacity(), the binary search over chunk_boundaries that get, get_mut and
\* return_to_pool use finds the same chunk and the same offset as the scan
\* over the chunk lengths that allocate uses to write the value, also for
\* the first index of a chunk, which equals a chunk boundary.
C33_BinarySearchIsLinearScan ==
    IsGrowing =>
        \A i \in 0..(GrowingPool_capacity(pool) - 1) :
            LET scan == ScanChunks(pool.storage, 0, i)
                loc == GrowingPool_compute_chunk_location(pool, i)
            IN /\ scan.found
               /\ loc.chunk_idx = scan.chunk_idx
               /\ loc.offset = scan.offset

\* a pool that has grown twice, whose last allocate wrote the first slot of
\* the third chunk: its index is the second chunk boundary
C33_Witness ==
    /\ IsGrowing
    /\ Len(pool.storage) >= 3
    /\ AllocateOk
    /\ lastOp.result.index = pool.chunk_boundaries[2]
    /\ ScanChunks(pool.storage, 0, lastOp.result.index).chunk_idx = 2
    /\ \E h \in LiveHandles : h.index = pool.chunk_boundaries[1]


\* C34: in every state of a growing pool every chunk is non-empty,
\* chunk_boundaries has one entry per chunk and is strictly increasing, its
\* k-th entry is the sum of the sizes of the first k chunks, and its last
\* entry equals capacity() and the capacity of the tracker.
C34_BoundariesArePrefixSums ==
    IsGrowing =>
        LET n == Len(pool.storage)
            boundaries == pool.chunk_boundaries
        IN /\ n >= 1
           /\ \A k \in 1..n : Len(pool.storage[k]) >= 1
           /\ Len(boundaries) = n
           /\ \A k \in 1..(n - 1) : boundaries[k] < boundaries[k + 1]
           /\ \A k \in 1..n : boundaries[k] = SlotsBefore(pool, k)
           /\ boundaries[n] = GrowingPool_capacity(pool)
           /\ boundaries[n] = Allocator_capacity(pool.allocator)

\* a pool that has grown twice by steps of different sizes
C34_Witness ==
    /\ IsGrowing
    /\ Len(pool.storage) >= 3
    /\ Len(pool.storage[2]) # Len(pool.storage[3])
    /\ lastOp.op = "allocate"
    /\ Grown


---------------------------------------------------------------------------
(* The scan of the Bitmap tracker *)

\* the indices whose bit is set in the words of a bitmap tracker
SetBits(a) ==
    {i \in 0..(Len(a.bitmap) * BITS_PER_WORD - 1) :
        (i % BITS_PER_WORD) \in a.bitmap[(i \div BITS_PER_WORD) + 1]}

C35_InRange ==
    tracker.kind = "Bitmap" =>
        /\ Len(tracker.bitmap) = NumWords(tracker.capacity)
        /\ \A i \in SetBits(tracker) : i < tracker.capacity
        /\ SetBits(tracker) = claimed
        /\ tracker.capacity >= 1
              => tracker.next_free_hint < Len(tracker.bitmap)

C35_ClaimScans ==
    tracker.kind = "Bitmap" /\ trackerOp'.op = "claim" =>
        LET ret == trackerOp'.ret
        IN IF FreeSet(tracker) = {}
           THEN ret = None /\ tracker' = tracker
           ELSE /\ ret = Min(FreeInWord(tracker, FirstFreeWord(tracker)))
                /\ ret < tracker.capacity
                /\ SetBits(tracker') = SetBits(tracker) \cup {ret}
                /\ tracker'.next_free_hint = ret \div BITS_PER_WORD

C35_ReleaseHints ==
    /\ tracker.kind = "Bitmap"
    /\ trackerOp'.op = "release"
    /\ trackerOp'.panic = NoPanic
    => /\ SetBits(tracker') = SetBits(tracker) \ {trackerOp'.arg}
       /\ tracker'.next_free_hint = trackerOp'.arg \div BITS_PER_WORD

C36_FindFreeSlotsDistinct ==
    [][trackerOp'.op = "find_free_slots" =>
          LET count == trackerOp'.arg
              indices == trackerOp'.indices
          IN IF count > Allocator_available(tracker)
             THEN trackerOp'.ret = None
             ELSE /\ trackerOp'.ret # None
                  /\ Len(indices) = count
                  /\ Cardinality(SeqToSet(indices)) = count
                  /\ SeqToSet(indices) \subseteq FreeSet(tracker)
                  /\ \A i \in SeqToSet(indices) :
                        i < tracker.capacity]_vars

---------------------------------------------------------------------------
(* The statistics of a pool, in a build with the feature "stats" *)

\* the largest number of allocate calls between two resets
MaxCalls == 3

PoolStatistics_new(capacity) ==
    [kind |-> "PoolStatistics",
     total_allocations |-> 0,
     total_deallocations |-> 0,
     current_usage |-> 0,
     peak_usage |-> 0,
     capacity |-> capacity,
     growth_count |-> 0,
     allocation_failures |-> 0]

StatisticsCollector_new(capacity) == PoolStatistics_new(capacity)

StatisticsCollector_record_allocation(s) ==
    LET counted == [s EXCEPT !.total_allocations = @ + 1,
                             !.current_usage = @ + 1]
    IN IF counted.current_usage > counted.peak_usage
       THEN [counted EXCEPT !.peak_usage = counted.current_usage]
       ELSE counted

\* usize::saturating_sub(1)
StatisticsCollector_record_deallocation(s) ==
    [s EXCEPT !.total_deallocations = @ + 1,
              !.current_usage = IF @ >= 1 THEN @ - 1 ELSE 0]

\* no function of the pools calls record_failure
StatisticsCollector_record_failure(s) ==
    [s EXCEPT !.allocation_failures = @ + 1]

StatisticsCollector_record_growth(s, new_capacity) ==
    [s EXCEPT !.growth_count = @ + 1, !.capacity = new_capacity]

StatisticsCollector_snapshot(s) == s

StatisticsCollector_reset(s) == PoolStatistics_new(s.capacity)

FixedPool_statistics(p, s) ==
    [StatisticsCollector_snapshot(s) EXCEPT
        !.current_usage = FixedPool_allocated(p)]

GrowingPool_statistics(p, s) ==
    [StatisticsCollector_snapshot(s) EXCEPT
        !.current_usage = GrowingPool_allocated(p),
        !.capacity = GrowingPool_capacity(p)]

Pool_statistics(p, s) ==
    CASE p.kind = "FixedPool" -> FixedPool_statistics(p, s)
      [] p.kind = "GrowingPool" -> GrowingPool_statistics(p, s)

\* what allocate, having returned r on pool p, has recorded: the growth in
\* grow, the allocation once an index is claimed, nothing when it returns
\* an error
Pool_allocate_recorded(p, r, s) ==
    LET grown == IF r.pool.capacity # p.capacity
                 THEN StatisticsCollector_record_growth(s, r.pool.capacity)
                 ELSE s
    IN IF r.result.kind = "Ok"
       THEN StatisticsCollector_record_allocation(grown)
       ELSE grown

\* what return_to_pool has recorded
Pool_return_to_pool_recorded(r, s) ==
    IF r.result.kind = "Ok"
    THEN StatisticsCollector_record_deallocation(s)
    ELSE s

StatsConfigs ==
    {config \in GrowingConfigs :
        /\ config.growth_strategy \in
              {[kind |-> "None"], [kind |-> "Linear", amount |-> 1]}
        /\ config.max_capacity \in {None, CapBound}}

StatsInit ==
    /\ debug_assertions \in BOOLEAN
    /\ \/ \E config \in FixedConfigs :
             /\ config.capacity <= MaxInitCap
             /\ pool = FixedPool_with_config(config)
       \/ \E config \in StatsConfigs : pool = GrowingPool_with_config(config)
    /\ stats = StatisticsCollector_new(pool.capacity)
    /\ calls = [ok |-> 0, err |-> 0]
    /\ handles = EmptyBag
    /\ lastOp = [op |-> "new", arg |-> None, result |-> Ok(None),
                 events |-> NoEvents]
    /\ before = NoBefore
    /\ round = NewRound
    /\ TrackerIdle
    /\ SharedIdle /\ ThreadsIdle /\ BuilderIdle

StatsUnchanged ==
    UNCHANGED <<debug_assertions, trackerVars, before, round, sharedVars,
                threadVars, builder>>

\* pool.allocate(value), the handle kept when there is one
StatsAllocate(value) ==
    /\ calls.ok + calls.err < MaxCalls
    /\ pool.kind = "GrowingPool" /\ GrowingPool_available(pool) = 0
          /\ pool.config.max_capacity = None
          => GrownCapacity(pool) <= CapBound
    /\ LET r == Pool_allocate(pool, value)
       IN /\ pool' = r.pool
          /\ stats' = Pool_allocate_recorded(pool, r, stats)
          /\ calls' = IF r.result.kind = "Ok"
                      THEN [calls EXCEPT !.ok = @ + 1]
                      ELSE [calls EXCEPT !.err = @ + 1]
          /\ handles' = IF r.result.kind = "Ok"
                        THEN AddHandle(handles,
                                OwnedHandle_new(r.result.index, value))
                        ELSE handles
          /\ lastOp' = [op |-> "allocate", arg |-> value,
                        result |-> r.result, events |-> r.events]
    /\ StatsUnchanged

\* drop(handle)
StatsDrop(h) ==
    /\ BagIn(h, handles)
    /\ LET r == PoolInterface_return_to_pool(pool, h.index)
       IN /\ pool' = r.pool
          /\ stats' = Pool_return_to_pool_recorded(r, stats)
          /\ handles' = RemoveHandle(handles, h)
          /\ lastOp' = [op |-> "drop", arg |-> h.index, result |-> r.result,
                        events |-> r.events]
    /\ UNCHANGED calls
    /\ StatsUnchanged

\* pool.reset_statistics()
StatsReset ==
    /\ stats' = StatisticsCollector_reset(stats)
    /\ calls' = [ok |-> 0, err |-> 0]
    /\ lastOp' = [op |-> "reset_statistics", arg |-> None,
                  result |-> Ok(None), events |-> NoEvents]
    /\ UNCHANGED <<pool, handles>>
    /\ StatsUnchanged

StatsNext ==
    \/ StatsAllocate(MaxVal)
    \/ \E h \in BagToSet(handles) : StatsDrop(h)
    \/ StatsReset

SpecStats == StatsInit /\ [][StatsNext]_vars

\* C37: with statistics enabled, the allocation_failures of statistics()
\* is the number of allocate calls that returned an error since the pool
\* was created or its statistics were last reset, and total_allocations the
\* number of those that succeeded.
C37_FailuresAndAllocationsCounted ==
    LET snapshot == Pool_statistics(pool, stats)
    IN /\ snapshot.allocation_failures = calls.err
       /\ snapshot.total_allocations = calls.ok

\* C38: with statistics enabled, every snapshot statistics() returns has
\* peak_usage >= current_usage and current_usage = allocated(), after any
\* allocate, drop and reset_statistics calls, a reset with live handles
\* among them.
C38_PeakAtLeastCurrent ==
    LET snapshot == Pool_statistics(pool, stats)
    IN /\ snapshot.peak_usage >= snapshot.current_usage
       /\ snapshot.current_usage = Pool_allocated(pool)


---------------------------------------------------------------------------
(* ThreadSafePool with threads that wait for the Mutex: a call of allocate
   and the drop of a handle are pending from the call to the return, and
   the step that takes the lock is one the thread waits for *)

\* pool.allocate(value) is called, by a thread that holds no handle: as in
\* the tests of the pool, a thread drops its handle before it allocates
\* again
ThreadSafePoolAllocateCall(t) ==
    /\ Running
    /\ threads[t].pc = "idle"
    /\ threads[t].held = {}
    /\ threads' = [threads EXCEPT ![t].pc = "allocate_lock",
                                  ![t].value = t]
    /\ lastOp' = [op |-> "call_allocate", arg |-> t, result |-> Ok(None),
                  events |-> NoEvents]
    /\ UNCHANGED <<pool, mutex, lastRelease>>
    /\ ThreadUnchanged

\* self.inner.lock() of allocate returns the guard
ThreadSafePoolAllocateLocked(t) ==
    /\ Running
    /\ threads[t].pc = "allocate_lock"
    /\ Mutex_lock(t)
    /\ mutex' = t
    /\ threads' = [threads EXCEPT ![t].pc = "allocate_internal"]
    /\ lastOp' = [op |-> "lock", arg |-> t, result |-> Ok(None),
                  events |-> NoEvents]
    /\ UNCHANGED <<pool, lastRelease>>
    /\ ThreadUnchanged

\* drop(handle) is called
ThreadSafeHandleDropCall(t, h) ==
    /\ Running
    /\ threads[t].pc = "idle"
    /\ h \in threads[t].held
    /\ threads' = [threads EXCEPT ![t].pc = "drop_lock",
                                  ![t].held = @ \ {h},
                                  ![t].dropping = h]
    /\ lastOp' = [op |-> "call_drop", arg |-> t, result |-> Ok(h.index),
                  events |-> NoEvents]
    /\ UNCHANGED <<pool, mutex, lastRelease>>
    /\ ThreadUnchanged

\* self.pool.lock() of drop returns the guard
ThreadSafeHandleDropLocked(t) ==
    /\ Running
    /\ threads[t].pc = "drop_lock"
    /\ Mutex_lock(t)
    /\ mutex' = t
    /\ threads' = [threads EXCEPT ![t].pc = "on_release"]
    /\ lastOp' = [op |-> "drop_lock", arg |-> t,
                  result |-> Ok(threads[t].dropping.index),
                  events |-> NoEvents]
    /\ UNCHANGED <<pool, lastRelease>>
    /\ ThreadUnchanged

ThreadSafeWaitNext ==
    \/ \E t \in Threads : ThreadSafePoolAllocateCall(t)
    \/ \E t \in Threads : ThreadSafePoolAllocateLocked(t)
    \/ \E t \in Threads : ThreadSafePoolAllocateInternal(t)
    \/ \E t \in Threads : ThreadSafePoolAllocateReturn(t)
    \/ \E t \in Threads : \E h \in threads[t].held :
          ThreadSafeHandleDropCall(t, h)
    \/ \E t \in Threads : ThreadSafeHandleDropLocked(t)
    \/ \E t \in Threads : ThreadSafeHandleOnRelease(t)
    \/ \E t \in Threads : ThreadSafeHandleDropInPlace(t)
    \/ \E t \in Threads : ThreadSafeHandleFree(t)

\* the steps of thread t between the lock and the end of its call
ThreadRuns(t) ==
    \/ ThreadSafePoolAllocateInternal(t)
    \/ ThreadSafePoolAllocateReturn(t)
    \/ ThreadSafeHandleOnRelease(t)
    \/ ThreadSafeHandleDropInPlace(t)
    \/ ThreadSafeHandleFree(t)

\* the lock is handed to thread t
ThreadLocks(t) ==
    ThreadSafePoolAllocateLocked(t) \/ ThreadSafeHandleDropLocked(t)

\* a thread that holds the lock goes on to the end of its call; a fair
\* Mutex hands the lock to every thread that waits for it
ThreadSafeFairness ==
    \A t \in Threads : WF_vars(ThreadRuns(t)) /\ SF_vars(ThreadLocks(t))

\* the threads share a pool of one slot, which either cannot grow or grows
\* by one slot at a time
ThreadSafeWaitInit ==
    /\ ThreadSafeInit
    /\ pool.config.capacity = 1

SpecThreadSafeFair ==
    ThreadSafeWaitInit /\ [][ThreadSafeWaitNext]_vars /\ ThreadSafeFairness

\* the thread is in a call of allocate or in the drop of a handle
Pending(t) == threads[t].pc # "idle"

\* the thread is between the lock and the end of its call
Locked(t) ==
    threads[t].pc \in {"allocate_internal", "cache_ptr", "on_release",
                       "drop_in_place", "free"}

C39_MutexHeldInsideCallsOnly ==
    /\ \A t \in Threads : mutex = t <=> Locked(t)
    /\ \A t \in Threads : ~Pending(t) => mutex # t
    /\ mutex = None => \A t \in Threads : ~Locked(t)

C39_ReturnReleases ==
    \A t \in Threads :
        Pending(t) /\ ~Pending(t)' => mutex = t /\ mutex' = None

\* C39: every allocate of the mutex-guarded pool, successful or failing,
\* and every drop of a handle has released the mutex when it returns; with
\* a fair mutex, every pending allocate and every pending drop of every
\* thread completes in the end, so that no interleaving deadlocks: no thread
\* stays inside a call for ever (Pending(t) ~> ~Pending(t), written as
\* always-eventually).
C39_CallsComplete ==
    /\ []C39_MutexHeldInsideCallsOnly
    /\ [][C39_ReturnReleases]_vars
    /\ \A t \in Threads : []<>~Pending(t)

\* an allocate has returned an error and left the lock while another thread
\* waits for the lock to drop its handle
C39_Witness ==
    /\ lastOp.op = "allocate"
    /\ lastOp.result.kind = "PoolExhausted"
    /\ mutex = None
    /\ ~Pending(lastOp.arg)
    /\ \E t \in Threads : threads[t].pc = "drop_lock"


====
